---- MODULE Spec2Model ----
(***************************************************************************)
(* A model of solgen's generated ABI codec (the helper functions of       *)
(* encodingHelpersTemplate and decodingHelpersTemplate and the decoders   *)
(* of methodDecodersTemplate, structDecodersTemplate,                     *)
(* eventDecodersTemplate and errorDecodersTemplate).                      *)
(*                                                                         *)
(* Byte buffers are sequences of 0..255.  A *big.Int is a sign and a      *)
(* normalised big-endian magnitude, an int64/uint64 is its 8 bytes, so    *)
(* that 256-bit and 64-bit arithmetic keeps its width.                    *)
(***************************************************************************)
EXTENDS Integers, Sequences, FiniteSets, TLC

VARIABLES pc, src, input, wire, op, arg, out, reg, call, ret, run, tasks

vars == <<pc, src, input, wire, op, arg, out, reg, call, ret, run, tasks>>

(***************************************************************************)
(* Bytes and slices                                                        *)
(***************************************************************************)
WordSize == 32

MaxUint8 == 255

Byte == 0..MaxUint8

Zeros(n) == [i \in 1..n |-> 0]

Fill(n, b) == [i \in 1..n |-> b]

\* Go's data[lo:hi]
Slice(data, lo, hi) == SubSeq(data, lo + 1, hi)

\* Go's copy into a zeroed destination of length n
CopyInto(n, s) == [i \in 1..n |-> IF i <= Len(s) THEN s[i] ELSE 0]

Bit(x, i) == (x \div (2 ^ i)) % 2

ByteXor(a, b) ==
  LET d(i) == ((Bit(a, i) + Bit(b, i)) % 2) * (2 ^ i)
  IN  d(0) + d(1) + d(2) + d(3) + d(4) + d(5) + d(6) + d(7)

ByteBitLen(b) ==
  IF b = 0 THEN 0 ELSE CHOOSE n \in 1..8 : 2 ^ (n - 1) <= b /\ b < 2 ^ n

(***************************************************************************)
(* math/big: natural numbers as normalised big-endian byte strings         *)
(***************************************************************************)
NatNorm(s) ==
  LET nz == {i \in 1..Len(s) : s[i] # 0}
  IN  IF nz = {} THEN <<>>
      ELSE SubSeq(s, CHOOSE i \in nz : \A j \in nz : i <= j, Len(s))

RECURSIVE NatInc(_)
NatInc(s) ==
  IF s = <<>> THEN <<1>>
  ELSE LET n == Len(s)
       IN  IF s[n] < MaxUint8 THEN [s EXCEPT ![n] = s[n] + 1]
           ELSE NatInc(SubSeq(s, 1, n - 1)) \o <<0>>

RECURSIVE NatDecRaw(_)
NatDecRaw(s) ==
  LET n == Len(s)
  IN  IF s[n] > 0 THEN [s EXCEPT ![n] = s[n] - 1]
      ELSE NatDecRaw(SubSeq(s, 1, n - 1)) \o <<MaxUint8>>

\* s - 1 for s > 0
NatDec(s) == NatNorm(NatDecRaw(s))

NatXor(a, b) ==
  LET n  == IF Len(a) > Len(b) THEN Len(a) ELSE Len(b)
      pa == Zeros(n - Len(a)) \o a
      pb == Zeros(n - Len(b)) \o b
  IN  NatNorm([i \in 1..n |-> ByteXor(pa[i], pb[i])])

BigInt(neg, abs) == [neg |-> neg, abs |-> abs]

BigZero == BigInt(FALSE, <<>>)

BigOne == BigInt(FALSE, <<1>>)

\* (*big.Int).SetBytes
SetBytes(buf) == BigInt(FALSE, NatNorm(buf))

\* (*big.Int).FillBytes into a buffer of n bytes (the callers guard BitLen)
FillBytes(x, n) == Zeros(n - Len(x.abs)) \o x.abs

BitLen(x) ==
  IF x.abs = <<>> THEN 0 ELSE 8 * (Len(x.abs) - 1) + ByteBitLen(x.abs[1])

Sign(x) == IF x.abs = <<>> THEN 0 ELSE IF x.neg THEN -1 ELSE 1

BigNeg(x) == IF x.abs = <<>> THEN x ELSE BigInt(~x.neg, x.abs)

\* x + 1
BigAddOne(x) ==
  IF x.neg
    THEN LET m == NatDec(x.abs) IN BigInt(m # <<>>, m)
    ELSE BigInt(FALSE, NatInc(x.abs))

\* x - 1
BigSubOne(x) ==
  IF x.neg \/ x.abs = <<>>
    THEN BigInt(TRUE, NatInc(x.abs))
    ELSE BigInt(FALSE, NatDec(x.abs))

\* x xor y for x, y >= 0
BigXor(x, y) == BigInt(FALSE, NatXor(x.abs, y.abs))

\* new(big.Int).Lsh(big.NewInt(1), 256) minus 1
Mask256 == BigSubOne(BigInt(FALSE, <<1>> \o Zeros(WordSize)))

(***************************************************************************)
(* int64 / uint64: 8 bytes, big-endian, two's complement                   *)
(***************************************************************************)
Int64Bytes == 8

I64Neg(v) == v[1] >= 128

RECURSIVE WrapInc(_)
\* v + 1 modulo 2^(8*Len(v))
WrapInc(v) ==
  IF v = <<>> THEN <<>>
  ELSE LET n == Len(v)
       IN  IF v[n] < MaxUint8 THEN [v EXCEPT ![n] = v[n] + 1]
           ELSE WrapInc(SubSeq(v, 1, n - 1)) \o <<0>>

\* -v modulo 2^64
I64Negate(v) == WrapInc([i \in 1..Len(v) |-> MaxUint8 - v[i]])

\* big.NewInt(v)
NewInt(v) ==
  IF I64Neg(v) THEN BigInt(TRUE, NatNorm(I64Negate(v)))
  ELSE BigInt(FALSE, NatNorm(v))

\* big.NewInt(0).SetUint64(v)
SetUint64(v) == BigInt(FALSE, NatNorm(v))

\* (*big.Int).IsUint64
IsUint64(x) == ~x.neg /\ Len(x.abs) <= Int64Bytes

\* (*big.Int).Uint64, for x with IsUint64
Uint64(x) == Zeros(Int64Bytes - Len(x.abs)) \o x.abs

RECURSIVE ToBytes(_, _)
\* a small non-negative int in n bytes
ToBytes(k, n) ==
  IF n = 0 THEN <<>> ELSE ToBytes(k \div 256, n - 1) \o <<k % 256>>

\* int64(k) for a small non-negative int
I64(k) == ToBytes(k, Int64Bytes)

RECURSIVE AddCarry(_, _, _)
AddCarry(a, b, c) ==
  IF a = <<>> THEN <<>>
  ELSE LET n == Len(a)
           s == a[n] + b[n] + c
       IN  AddCarry(SubSeq(a, 1, n - 1), SubSeq(b, 1, n - 1), s \div 256)
             \o <<s % 256>>

\* a + b modulo 2^64
I64Add(a, b) == AddCarry(a, b, 0)

RECURSIVE BytesLess(_, _)
\* unsigned comparison of equally long byte strings
BytesLess(a, b) ==
  IF a = <<>> THEN FALSE
  ELSE IF a[1] # b[1] THEN a[1] < b[1]
  ELSE BytesLess(Tail(a), Tail(b))

\* a < b as int64
I64Less(a, b) ==
  IF I64Neg(a) # I64Neg(b) THEN I64Neg(a) ELSE BytesLess(a, b)

\* the int a byte string of at most 3 significant bytes stands for
SmallInt(v) ==
  LET n == Len(v)
  IN  (IF n >= 3 THEN v[n - 2] * 65536 ELSE 0)
        + (IF n >= 2 THEN v[n - 1] * 256 ELSE 0)
        + (IF n >= 1 THEN v[n] ELSE 0)

(***************************************************************************)
(* Results of the helpers: a value, an error ("" is Go's nil error) and   *)
(* whether the call panicked instead of returning                         *)
(***************************************************************************)
Nil == "nil"

Ret(v, e) == [val |-> v, err |-> e, panic |-> FALSE]

\* a result with the cursor after the value and the size asked of make()
RetAt(v, n, e, a) ==
  [val |-> v, next |-> n, err |-> e, panic |-> FALSE, alloc |-> a]

PanicAt(a) ==
  [val |-> Nil, next |-> 0, err |-> "", panic |-> TRUE, alloc |-> a]

\* no make() was reached
NoAlloc == <<>>

(***************************************************************************)
(* encodingHelpersTemplate                                                 *)
(***************************************************************************)
\* encodeInt256 with the negative branch lacking abs.Sub(abs, 1): the one's
\* complement of the magnitude
encodeInt256BigOnesComplement(v) ==
  IF BitLen(v) >= 256 THEN Ret(Nil, "value too large for int256")
  ELSE IF Sign(v) >= 0 THEN Ret(FillBytes(v, WordSize), "")
  ELSE Ret(FillBytes(BigXor(BigNeg(v), Mask256), WordSize), "")

\* the *big.Int case of encodeInt256
encodeInt256Big(v) ==
  IF BitLen(v) >= 256 THEN Ret(Nil, "value too large for int256")
  ELSE IF Sign(v) >= 0 THEN Ret(FillBytes(v, WordSize), "")
  ELSE LET abs == BigXor(BigSubOne(BigNeg(v)), Mask256)
       IN  Ret(FillBytes(abs, WordSize), "")

\* val is a Go interface value: its dynamic type t and its value v
encodeInt256(val) ==
  CASE val.t = "*big.Int" -> encodeInt256Big(val.v)
    [] val.t = "int64"    -> encodeInt256Big(NewInt(val.v))
    [] val.t = "int"      -> encodeInt256Big(NewInt(val.v))
    [] OTHER              -> Ret(Nil, "unsupported type for int256")

encodeUint256(val) ==
  CASE val.t = "*big.Int" ->
         IF Sign(val.v) < 0
           THEN Ret(Nil, "negative values not supported for uint256")
         ELSE IF BitLen(val.v) > 256
           THEN Ret(Nil, "value too large for uint256")
         ELSE Ret(FillBytes(val.v, WordSize), "")
    [] val.t = "uint64"   -> Ret(FillBytes(SetUint64(val.v), WordSize), "")
    [] val.t \in {"int64", "int"} ->
         IF I64Neg(val.v)
           THEN Ret(Nil, "negative values not supported for uint256")
         ELSE Ret(FillBytes(NewInt(val.v), WordSize), "")
    [] OTHER              -> Ret(Nil, "unsupported type for uint256")

AddressSize == 20

encodeAddress(addr) ==
  Ret(Zeros(WordSize - AddressSize) \o addr, "")

encodeBool(val) ==
  Ret([i \in 1..WordSize |-> IF i = WordSize /\ val THEN 1 ELSE 0], "")

\* ((length + 31) / 32) * 32
PaddedLength(length) == ((length + 31) \div 32) * 32

encodeBytes(data) ==
  LET length      == Len(data)
      lengthBytes == encodeUint256([t |-> "uint64", v |-> I64(length)])
      paddedData  == CopyInto(PaddedLength(length), data)
  IN  IF lengthBytes.err # "" THEN Ret(Nil, lengthBytes.err)
      ELSE Ret(lengthBytes.val \o paddedData, "")

\* []byte(str): a Go string is its bytes
encodeString(str) == encodeBytes(str)

(***************************************************************************)
(* decodingHelpersTemplate                                                 *)
(***************************************************************************)
decodeUint256(data) ==
  IF Len(data) < 32 THEN Ret(Nil, "insufficient data for uint256")
  ELSE Ret(SetBytes(Slice(data, 0, 32)), "")

decodeInt256(data) ==
  IF Len(data) < 32 THEN Ret(Nil, "insufficient data for int256")
  ELSE LET result == SetBytes(Slice(data, 0, 32))
       IN  IF data[1] >= 128
             THEN Ret(BigNeg(BigAddOne(BigXor(result, Mask256))), "")
             ELSE Ret(result, "")

\* decodeAddress asking only for the 20 bytes of the address
decodeAddressOf20(data) ==
  IF Len(data) < AddressSize THEN Ret(Zeros(AddressSize), "insufficient data for address")
  ELSE Ret(Slice(data, Len(data) - AddressSize, Len(data)), "")

decodeAddress(data) ==
  IF Len(data) < 32 THEN Ret(Zeros(AddressSize), "insufficient data for address")
  ELSE Ret(Slice(data, 12, 32), "")

decodeBool(data) ==
  IF Len(data) < 32 THEN Ret(FALSE, "insufficient data for bool")
  ELSE Ret(data[32] # 0, "")

decodeHash(data) ==
  IF Len(data) < 32 THEN Ret(Zeros(WordSize), "insufficient data for hash")
  ELSE Ret(Slice(data, 0, 32), "")

decodeFixedBytes(data, size) ==
  IF Len(data) < 32 THEN Ret(Nil, "insufficient data for fixed bytes")
  ELSE IF size > 32 THEN Ret(Nil, "fixed bytes size too large")
  ELSE Ret(CopyInto(size, Slice(data, 0, size)), "")

decodeBytes1(data) ==
  LET bytes == decodeFixedBytes(data, 1)
  IN  IF bytes.err # "" THEN Ret(Zeros(1), bytes.err)
      ELSE Ret(CopyInto(1, bytes.val), "")

decodeBytes32(data) ==
  LET bytes == decodeFixedBytes(data, 32)
  IN  IF bytes.err # "" THEN Ret(Zeros(32), bytes.err)
      ELSE Ret(CopyInto(32, bytes.val), "")

\* some data[i] with lo <= i < hi differs from b (Go indices)
PadDiffers(data, lo, hi, b) == \E i \in lo..(hi - 1) : data[i + 1] # b

RECURSIVE ShiftIn(_, _, _, _)
\* for i := lo; i < hi; i++ { result = (result << 8) | T(data[i]) }
ShiftIn(result, data, lo, hi) ==
  IF lo >= hi THEN result
  ELSE ShiftIn(Tail(result) \o <<data[lo + 1]>>, data, lo + 1, hi)

\* decodeUint8 with its padding loop started at i := 1
decodeUint8PadFrom1(data) ==
  IF Len(data) < 32 THEN Ret(Zeros(1), "insufficient data for uint8")
  ELSE IF PadDiffers(data, 1, 31, 0) THEN Ret(Zeros(1), "invalid uint8 encoding")
  ELSE Ret(<<data[32]>>, "")

decodeUint8(data) ==
  IF Len(data) < 32 THEN Ret(Zeros(1), "insufficient data for uint8")
  ELSE IF PadDiffers(data, 0, 31, 0) THEN Ret(Zeros(1), "invalid uint8 encoding")
  ELSE Ret(<<data[32]>>, "")

decodeUint16(data) ==
  IF Len(data) < 32 THEN Ret(Zeros(2), "insufficient data for uint16")
  ELSE IF PadDiffers(data, 0, 30, 0) THEN Ret(Zeros(2), "invalid uint16 encoding")
  ELSE Ret(<<data[31], data[32]>>, "")

decodeUint32(data) ==
  IF Len(data) < 32 THEN Ret(Zeros(4), "insufficient data for uint32")
  ELSE IF PadDiffers(data, 0, 28, 0) THEN Ret(Zeros(4), "invalid uint32 encoding")
  ELSE Ret(ShiftIn(Zeros(4), data, 28, 32), "")

decodeUint64(data) ==
  IF Len(data) < 32 THEN Ret(Zeros(8), "insufficient data for uint64")
  ELSE IF PadDiffers(data, 0, 24, 0) THEN Ret(Zeros(8), "value exceeds uint64 range")
  ELSE Ret(ShiftIn(Zeros(8), data, 24, 32), "")

\* result |= ^((1 << 32) - 1): the upper 32 bits are set
SetUpper32(result) == [i \in 1..Int64Bytes |-> IF i <= 4 THEN MaxUint8 ELSE result[i]]

decodeInt64(data) ==
  IF Len(data) < 32 THEN Ret(Zeros(8), "insufficient data for int64")
  ELSE LET isNegative   == data[1] >= 128
           expectedByte == IF isNegative THEN MaxUint8 ELSE 0
           result       == ShiftIn(Zeros(8), data, 24, 32)
       IN  IF PadDiffers(data, 0, 24, expectedByte)
             THEN Ret(Zeros(8), "value exceeds int64 range")
           ELSE IF isNegative THEN Ret(SetUpper32(result), "")
           ELSE Ret(result, "")

\* int(lengthBig.Uint64()) below 2^24: its value is SmallInt
SmallLen(length) == \A i \in 1..5 : length[i] = 0

\* make() of a negative length, or of more than 2^48 elements, panics
MakePanics(length) == I64Neg(length) \/ length[1] # 0 \/ length[2] # 0

\* decodeBytes with the next offset taken from length, not paddedLength
decodeBytesUnpadded(data, offset) ==
  IF Len(data) < offset + 32
    THEN RetAt(Nil, 0, "insufficient data for bytes length", NoAlloc)
  ELSE LET lengthBig == decodeUint256(Slice(data, offset, offset + 32))
       IN  IF lengthBig.err # "" THEN RetAt(Nil, 0, lengthBig.err, NoAlloc)
           ELSE IF ~IsUint64(lengthBig.val)
             THEN RetAt(Nil, 0, "bytes length too large", NoAlloc)
           ELSE LET length == Uint64(lengthBig.val)
                IN  IF I64Less(I64(Len(data)), I64Add(I64(offset + 32), length))
                      THEN RetAt(Nil, 0, "insufficient data for bytes content", NoAlloc)
                    ELSE IF MakePanics(length) \/ ~SmallLen(length)
                      THEN PanicAt(length)
                    ELSE LET n == SmallInt(length)
                         IN  RetAt(CopyInto(n, Slice(data, offset + 32, offset + 32 + n)),
                                   offset + 32 + n, "", length)

decodeBytes(data, offset) ==
  IF Len(data) < offset + 32
    THEN RetAt(Nil, 0, "insufficient data for bytes length", NoAlloc)
  ELSE LET lengthBig == decodeUint256(Slice(data, offset, offset + 32))
       IN  IF lengthBig.err # "" THEN RetAt(Nil, 0, lengthBig.err, NoAlloc)
           ELSE IF ~IsUint64(lengthBig.val)
             THEN RetAt(Nil, 0, "bytes length too large", NoAlloc)
           ELSE LET length == Uint64(lengthBig.val)
                IN  IF I64Less(I64(Len(data)), I64Add(I64(offset + 32), length))
                      THEN RetAt(Nil, 0, "insufficient data for bytes content", NoAlloc)
                    \* past the comparison a length that is not small is negative, or
                    \* made offset+32+length wrap: make() or the slice panics
                    ELSE IF MakePanics(length) \/ ~SmallLen(length)
                      THEN PanicAt(length)
                    ELSE LET n == SmallInt(length)
                         IN  RetAt(CopyInto(n, Slice(data, offset + 32, offset + 32 + n)),
                                   offset + 32 + PaddedLength(n), "", length)

\* string(bytes): a Go string is its bytes
decodeString(data, offset) ==
  LET bytes == decodeBytes(data, offset)
  IN  IF bytes.panic THEN bytes
      ELSE IF bytes.err # "" THEN RetAt(<<>>, 0, bytes.err, bytes.alloc)
      ELSE bytes

\* the element decoders handed to decodeArray
ElemDecoders ==
  {"decodeUint256ArrayElement", "decodeInt256ArrayElement",
   "decodeAddressArrayElement", "decodeBoolArrayElement", "decodeUint64"}

elemDecode(elemDecoder, data) ==
  CASE elemDecoder = "decodeUint256ArrayElement" -> decodeUint256(data)
    [] elemDecoder = "decodeInt256ArrayElement"  -> decodeInt256(data)
    [] elemDecoder = "decodeAddressArrayElement" -> decodeAddress(data)
    [] elemDecoder = "decodeBoolArrayElement"    -> decodeBool(data)
    [] elemDecoder = "decodeUint64"              -> decodeUint64(data)

RECURSIVE arrayLoop(_, _, _, _, _, _)
\* for i := 0; i < length; i++ { ... }
arrayLoop(data, elemDecoder, length, i, currentOffset, result) ==
  IF SmallLen(length) /\ i >= SmallInt(length)
    THEN RetAt(result, currentOffset, "", length)
  ELSE IF Len(data) < currentOffset + 32
    THEN RetAt(Nil, 0, "insufficient data for array element", length)
  ELSE LET elem == elemDecode(elemDecoder, Slice(data, currentOffset, currentOffset + 32))
       IN  IF elem.err # "" THEN RetAt(Nil, 0, elem.err, length)
           ELSE arrayLoop(data, elemDecoder, length, i + 1, currentOffset + 32,
                          Append(result, elem.val))

\* mem: whether the runtime can serve an allocation of 2^24 elements or more
decodeArray(data, offset, elemDecoder, mem) ==
  IF Len(data) < offset + 32
    THEN RetAt(Nil, 0, "insufficient data for array length", NoAlloc)
  ELSE LET lengthBig == decodeUint256(Slice(data, offset, offset + 32))
       IN  IF lengthBig.err # "" THEN RetAt(Nil, 0, lengthBig.err, NoAlloc)
           ELSE IF ~IsUint64(lengthBig.val)
             THEN RetAt(Nil, 0, "array length too large", NoAlloc)
           ELSE LET length == Uint64(lengthBig.val)
                IN  IF MakePanics(length) \/ (~SmallLen(length) /\ ~mem)
                      THEN PanicAt(length)
                    ELSE arrayLoop(data, elemDecoder, length, 0, offset + 32, <<>>)

(***************************************************************************)
(* The generated decoders.  A type is the GoType the templates test:      *)
(* TypeName, IsSigned, IsSlice, and Elem for TypeName[2:], the element    *)
(* type of a slice.  A struct is its Name and its Fields, a parameter its *)
(* Name, Type and Indexed.                                                 *)
(***************************************************************************)
GoType(name, signed, slice, elem) ==
  [TypeName |-> name, IsSigned |-> signed, IsSlice |-> slice, Elem |-> elem]

Param(name, type, indexed) == [Name |-> name, Type |-> type, Indexed |-> indexed]

\* one parameter decoded: its value and the cursor after it
Step(v, n) == [val |-> v, next |-> n, err |-> "", panic |-> FALSE]

Stop(e) == [val |-> Nil, next |-> 0, err |-> e, panic |-> FALSE]

Crash == [val |-> Nil, next |-> 0, err |-> "", panic |-> TRUE]

\* val, nextOffset, err = decodeX(data, offset); if err != nil { return }
FromAt(r) ==
  IF r.panic THEN Crash ELSE IF r.err # "" THEN Stop(r.err) ELSE Step(r.val, r.next)

\* int8(val), int16(val), int32(val): the low n bytes
Truncate(val, n) == SubSeq(val, Int64Bytes - n + 1, Int64Bytes)

IntNBytes(name) ==
  CASE name = "int8" -> 1 [] name = "int16" -> 2 [] name = "int32" -> 4

\* the helper a template calls on the 32-byte slot of a static type
staticDecode(type, word) ==
  CASE type.TypeName = "*big.Int" ->
         IF type.IsSigned THEN decodeInt256(word) ELSE decodeUint256(word)
    [] type.TypeName = "uint64"   -> decodeUint64(word)
    [] type.TypeName = "uint8"    -> decodeUint8(word)
    [] type.TypeName = "uint16"   -> decodeUint16(word)
    [] type.TypeName = "uint32"   -> decodeUint32(word)
    [] type.TypeName = "int64"    -> decodeInt64(word)
    [] type.TypeName \in {"int8", "int16", "int32"} ->
         LET val == decodeInt64(word)
             n   == IntNBytes(type.TypeName)
         IN  IF val.err # "" THEN Ret(Zeros(n), val.err)
             ELSE Ret(Truncate(val.val, n), "")
    [] type.TypeName = "bool"     -> decodeBool(word)
    [] type.TypeName = "Address"  -> decodeAddress(word)
    [] type.TypeName = "Hash"     -> decodeHash(word)
    [] type.TypeName = "[1]byte"  -> decodeBytes1(word)
    [] type.TypeName = "[32]byte" -> decodeBytes32(word)

\* val, err = decodeX(data[offset:offset+32]); if err != nil { return };
\* offset += 32
FromWord(r, offset) ==
  IF r.err # "" THEN Stop(r.err) ELSE Step(r.val, offset + 32)

\* if len(data) < offset+32 { return } ; val, err = decodeX(data[offset:offset+32]);
\* offset += 32
staticStep(type, data, offset) ==
  IF Len(data) < offset + 32 THEN Stop("insufficient data")
  ELSE FromWord(staticDecode(type, Slice(data, offset, offset + 32)), offset)

\* the static types each template has a branch for
SingleStatic ==
  {"*big.Int", "uint64", "uint8", "uint16", "uint32", "int64", "int8", "int16",
   "int32", "bool", "Address", "Hash", "[1]byte", "[32]byte"}

StructStatic == SingleStatic

MultiStatic == {"*big.Int", "uint64", "int64", "bool", "Address"}

\* the element decoder of the primitive arrays a template has a branch for
ArrayElemDecoder(name) ==
  CASE name = "[]*big.Int" -> "decodeUint256ArrayElement"
    [] name = "[]uint64"   -> "decodeUint64"
    [] name = "[]Address"  -> "decodeAddressArrayElement"
    [] name = "[]bool"     -> "decodeBoolArrayElement"

\* the structs of the contract named name (the templates range over all)
StructsNamed(structs, name) == {k \in 1..Len(structs) : structs[k].Name = name}

\* the length word of an array of structs, read in place at offset
structArrayLength(data, offset) ==
  IF Len(data) < offset + 32 THEN Stop("insufficient data for array length")
  ELSE LET val == decodeUint256(Slice(data, offset, offset + 32))
       IN  IF val.err # "" THEN Stop(val.err)
           ELSE IF ~IsUint64(val.val) THEN Stop("array length too large")
           ELSE Step(Uint64(val.val), offset + 32)

RECURSIVE decodeStruct(_, _, _, _, _)
RECURSIVE structArrayLoop(_, _, _, _, _, _, _, _)
RECURSIVE paramStep(_, _, _, _, _, _)
RECURSIVE paramLoop(_, _, _, _, _, _, _, _, _)
RECURSIVE structArrayNext(_, _, _, _, _, _, _, _)
RECURSIVE paramNext(_, _, _, _, _, _, _, _, _)

\* result := make([]S, length); for i := 0; i < length; i++ {
\*   elem, nextOffset, err = decodeS(data, offset); offset = nextOffset }
structArrayLoop(structs, k, data, length, i, offset, result, mem) ==
  IF SmallLen(length) /\ i >= SmallInt(length) THEN Step(result, offset)
  ELSE structArrayNext(structs, k, data, length, i, result, mem,
                       decodeStruct(structs, structs[k], data, offset, mem))

\* if err != nil { return }; structArray[j] = elem; offset = nextOffset
structArrayNext(structs, k, data, length, i, result, mem, elem) ==
  IF elem.panic THEN Crash
  ELSE IF elem.err # "" THEN Stop(elem.err)
  ELSE structArrayLoop(structs, k, data, length, i + 1, elem.next,
                       Append(result, elem.val), mem)

\* structArray := make([]S, length) and the loop, given the length read and
\* the offset after it
structArrayElems(structs, type, data, mem, len) ==
  LET ks == StructsNamed(structs, type.Elem)
  IN  IF len.err # "" THEN len
      ELSE IF ks = {} THEN Step(Nil, len.next)
      ELSE IF MakePanics(len.val) \/ (~SmallLen(len.val) /\ ~mem) THEN Crash
      ELSE structArrayLoop(structs, CHOOSE k \in ks : TRUE, data, len.val, 0,
                           len.next, <<>>, mem)

\* an array of structs whose length word is read in place at offset
structArrayInline(structs, type, data, offset, mem) ==
  structArrayElems(structs, type, data, mem, structArrayLength(data, offset))

\* multi-return, after the struct branch (sv: the struct decoded, if the
\* type names one): the struct-array branch, or "unsupported"
afterStruct(structs, type, data, mem, sv) ==
  IF sv.panic THEN Crash
  ELSE IF sv.err # "" THEN Stop(sv.err)
  ELSE IF type.IsSlice /\ Len(type.TypeName) > 2
    THEN IF StructsNamed(structs, type.Elem) = {}
           THEN Step(Nil, sv.next)
           ELSE structArrayInline(structs, type, data, sv.next, mem)
  ELSE Stop("unsupported multi-return type")

\* the code a template emits for one parameter or field of type type, read
\* at offset: kind is the template ("struct", "method", "event", "error")
paramStep(kind, structs, type, data, offset, mem) ==
  LET name == type.TypeName
  IN  CASE kind = "struct" ->
             IF name \in StructStatic THEN staticStep(type, data, offset)
             ELSE IF name = "string" THEN FromAt(decodeString(data, offset))
             ELSE IF name = "[]byte" THEN FromAt(decodeBytes(data, offset))
             ELSE IF type.IsSlice /\ name \in {"[]*big.Int", "[]uint64", "[]Address"}
               THEN FromAt(decodeArray(data, offset, ArrayElemDecoder(name), mem))
             ELSE IF type.IsSlice
               THEN structArrayInline(structs, type, data, offset, mem)
             ELSE Stop("unsupported struct field type")
        [] kind = "method" ->
             IF name \in MultiStatic THEN staticStep(type, data, offset)
             ELSE IF name \in {"[]*big.Int", "[]uint64", "[]Address", "[]bool"}
               THEN FromAt(decodeArray(data, offset, ArrayElemDecoder(name), mem))
             ELSE IF name = "string" THEN FromAt(decodeString(data, offset))
             ELSE IF name = "[]byte" THEN FromAt(decodeBytes(data, offset))
             ELSE LET ks == StructsNamed(structs, name)
                  IN  afterStruct(structs, type, data, mem,
                        IF ks = {} THEN Step(Nil, offset)
                        ELSE decodeStruct(structs, structs[CHOOSE k \in ks : TRUE],
                                          data, offset, mem))
        [] kind \in {"event", "error"} ->
             IF name \in MultiStatic THEN staticStep(type, data, offset)
             ELSE IF name = "string" THEN FromAt(decodeString(data, offset))
             ELSE IF name = "[]byte" THEN FromAt(decodeBytes(data, offset))
             ELSE Stop("unsupported parameter type")

\* the decoded parameters so far, the cursor, and the offsets they were read at
Done(result, offset, e, pn, reads) ==
  [val |-> result, next |-> offset, err |-> e, panic |-> pn, reads |-> reads]

\* {{range params}} ... {{end}}: the parameters from the i-th on; an event
\* skips its indexed parameters
paramLoop(kind, structs, params, i, data, offset, result, reads, mem) ==
  IF i > Len(params) THEN Done(result, offset, "", FALSE, reads)
  ELSE IF kind = "event" /\ params[i].Indexed
    THEN paramLoop(kind, structs, params, i + 1, data, offset,
                   Append(result, Nil), reads, mem)
  ELSE paramNext(kind, structs, params, i, data, result, Append(reads, offset), mem,
                 paramStep(kind, structs, params[i].Type, data, offset, mem))

\* if err != nil { return result, err }; result.X = val; then the next parameter
paramNext(kind, structs, params, i, data, result, reads, mem, st) ==
  IF st.panic THEN Done(result, 0, "", TRUE, reads)
  ELSE IF st.err # "" THEN Done(result, 0, st.err, FALSE, reads)
  ELSE paramLoop(kind, structs, params, i + 1, data, st.next,
                 Append(result, st.val), reads, mem)

\* decode{{.Name}}(data, offset)
decodeStruct(structs, s, data, offset, mem) ==
  paramLoop("struct", structs, s.Fields, 1, data, offset, <<>>, <<>>, mem)

\* the array of structs at the position arrayOffset, the word of the head slot
structArrayAt(structs, type, data, mem, arrayOffset) ==
  IF arrayOffset.err # "" THEN Stop(arrayOffset.err)
  ELSE IF ~IsUint64(arrayOffset.val) THEN Stop("array offset too large")
  ELSE LET arrayOffsetInt == Uint64(arrayOffset.val)
       IN  IF I64Less(I64(Len(data)), I64Add(arrayOffsetInt, I64(32)))
             THEN Stop("insufficient data for array length")
           \* past the comparison an offset that is not small is negative, or
           \* made arrayOffsetInt+32 wrap: data[arrayOffsetInt:] panics
           ELSE IF I64Neg(arrayOffsetInt) \/ ~SmallLen(arrayOffsetInt)
             THEN Crash
           ELSE structArrayInline(structs, type, data, SmallInt(arrayOffsetInt), mem)

\* a variant that reads the length word in the head slot itself
structArrayInPlace(structs, type, data, offset, mem) ==
  structArrayInline(structs, type, data, offset, mem)

\* a method returning one array of structs: the head slot is followed as a
\* pointer to the length word
structArrayPointer(structs, type, data, offset, mem) ==
  IF Len(data) < offset + 32 THEN Stop("insufficient data for array offset pointer")
  ELSE structArrayAt(structs, type, data, mem,
                     decodeUint256(Slice(data, offset, offset + 32)))

\* the zero value a decoder returns beside an error
ZeroValue(type) ==
  CASE type.TypeName \in {"uint8", "int8"}     -> Zeros(1)
    [] type.TypeName \in {"uint16", "int16"}   -> Zeros(2)
    [] type.TypeName \in {"uint32", "int32"}   -> Zeros(4)
    [] type.TypeName \in {"uint64", "int64"}   -> Zeros(8)
    [] type.TypeName = "bool"                  -> FALSE
    [] type.TypeName = "Address"               -> Zeros(AddressSize)
    [] type.TypeName = "Hash"                  -> Zeros(WordSize)
    [] type.TypeName = "[1]byte"               -> Zeros(1)
    [] type.TypeName = "[32]byte"              -> Zeros(32)
    [] OTHER                                   -> Nil

\* return result, err: a static type's zero value beside an error
singleResult(type, r) ==
  Done(IF r.err # "" /\ type.TypeName \in SingleStatic THEN ZeroValue(type) ELSE r.val,
       r.next, r.err, r.panic, <<0>>)

\* (m *Method) decodeImpl for a method with one output (offset := 0)
methodDecodeSingle(structs, type, data, mem) ==
  LET name == type.TypeName
  IN  singleResult(type,
        CASE name \in SingleStatic -> staticStep(type, data, 0)
          [] name = "string" -> FromAt(decodeString(data, 0))
          [] name = "[]byte" -> FromAt(decodeBytes(data, 0))
          [] OTHER ->
               IF StructsNamed(structs, name) # {}
                 THEN decodeStruct(structs,
                        structs[CHOOSE k \in StructsNamed(structs, name) : TRUE],
                        data, 0, mem)
               ELSE IF type.IsSlice /\ Len(name) > 2
                       /\ StructsNamed(structs, type.Elem) # {}
                 THEN structArrayPointer(structs, type, data, 0, mem)
               ELSE Stop("unsupported return type"))

\* (m *Method) decodeImpl: generated for a method with at least one output
methodDecodeImpl(structs, outputs, data, mem) ==
  IF Len(outputs) = 1 THEN methodDecodeSingle(structs, outputs[1].Type, data, mem)
  ELSE paramLoop("method", structs, outputs, 1, data, 0, <<>>, <<>>, mem)

\* (e *EventDecoder) decodeImpl
eventDecodeImpl(inputs, data, mem) ==
  paramLoop("event", <<>>, inputs, 1, data, 0, <<>>, <<>>, mem)

SelectorSize == 4

\* (e *ErrorDecoder) decodeImpl
errorDecodeImpl(inputs, data, mem) ==
  IF Len(data) < 4 THEN Done(<<>>, 0, "insufficient data for error selector", FALSE, <<>>)
  ELSE paramLoop("error", <<>>, inputs, 1, Slice(data, SelectorSize, Len(data)), 0,
                 <<>>, <<>>, mem)

\* a variant that hands the result on whatever the error
MustDecodeReturning(r) == r

\* MustDecode: result, err := decodeImpl(data); if err != nil { panic(err) };
\* return result.  A panic with err has panic and err set, a run-time panic
\* inside decodeImpl passes through
MustDecode(r) ==
  IF r.panic THEN r
  ELSE IF r.err # "" THEN [r EXCEPT !.val = Nil, !.panic = TRUE]
  ELSE r

(***************************************************************************)
(* The inputs: values handed to the encoders and buffers handed to the    *)
(* decoders                                                                *)
(***************************************************************************)
\* the longest byte string / string that is encoded
MaxStrLen == 33

\* the longest buffer, shorter than a word, that is decoded
MaxShortLen == 31

\* a 32-byte word: byte 0, bytes 1..23, byte 24, bytes 25..26, byte 27,
\* bytes 28..30, byte 31
Word(h, p, a, b, e, c, d) ==
  <<h>> \o Fill(23, p) \o <<a>> \o Fill(2, b) \o <<e>> \o Fill(3, c) \o <<d>>

\* the word of a small unsigned number
U256(k) == Zeros(WordSize - 3) \o ToBytes(k, 3)

Words ==
  {Word(h, p, a, b, e, c, d) :
     h \in {0, 1, 127, 128, 255}, p \in {0, 255}, a \in {0, 127, 128, 255},
     b \in {0, 255}, e \in {0, 255}, c \in {0, 1, 255}, d \in {0, 1, 128, 255}}
    \cup {U256(256), U256(65536)}

\* magnitudes of up to 33 bytes
Magnitudes ==
  {NatNorm(<<x, h>> \o Fill(30, m) \o <<d>>) :
     x \in {0, 1}, h \in {0, 1, 127, 128, 255}, m \in {0, 255}, d \in {0, 1, 255}}

BigInts == {BigInt(neg, abs) : neg \in BOOLEAN, abs \in Magnitudes} \ {BigInt(TRUE, <<>>)}

Int64s ==
  {<<a>> \o Fill(2, b) \o <<e>> \o Fill(3, c) \o <<d>> :
     a \in {0, 127, 128, 255}, b \in {0, 255}, e \in {0, 255},
     c \in {0, 255}, d \in {0, 1, 255}}

\* a Go interface value: its dynamic type and its value
Iface(t, v) == [t |-> t, v |-> v]

Addresses ==
  {<<x>> \o Fill(AddressSize - 2, y) \o <<z>> :
     x \in {0, 1, 255}, y \in {0, 255}, z \in {0, 1, 255}}

ByteStrings ==
  {<<>>} \cup {<<f>> \o Fill(n - 1, r) : n \in 1..MaxStrLen, f \in {0, 97}, r \in {0, 98}}

\* the offsets the helpers are called at
Offsets == {0, 32}

ShortBuffers == {Fill(n, b) : n \in 0..MaxShortLen, b \in {0, 1, 255}}

\* the most elements of an encoded array
MaxArrayLen == 2

ValueWords == {U256(7), Fill(WordSize, 255)}

SmallStrings == {<<>>, <<97>>, <<97>> \o Fill(32, 98)}

\* return data of a method returning (string) or (bytes)
AbiStrings == {U256(32) \o encodeBytes(str).val : str \in ByteStrings}

\* return data of a method returning (string, uint256)
AbiStringUints ==
  {U256(64) \o v \o encodeBytes(str).val : v \in ValueWords, str \in SmallStrings}

\* return data of a method returning (uint256, string)
AbiUintStrings ==
  {v \o U256(64) \o encodeBytes(str).val : v \in ValueWords, str \in SmallStrings}

\* return data of a method returning (Profile): the pointer to the tuple, its
\* head (id, pointer to name, age) and its tail
AbiProfiles ==
  {U256(32) \o id \o U256(96) \o U256(age) \o encodeBytes(str).val :
     id \in ValueWords, age \in {0, 30}, str \in SmallStrings}

\* the i-th User: (id, wallet, active)
AbiUser(i) ==
  U256(i) \o encodeAddress(Fill(AddressSize, i)).val \o encodeBool(i % 2 = 1).val

RECURSIVE AbiUsers(_)
AbiUsers(n) == IF n = 0 THEN <<>> ELSE AbiUsers(n - 1) \o AbiUser(n)

\* return data of a method returning (User[]), and a User in place
AbiUserArrays ==
  {U256(32) \o U256(n) \o AbiUsers(n) : n \in 0..MaxArrayLen}
    \cup {U256(64) \o U256(9) \o U256(n) \o AbiUsers(n) : n \in 1..MaxArrayLen}
    \cup {AbiUsers(1)}

\* return data of a method returning (uint256[])
AbiUintArrays ==
  {U256(32) \o U256(n) \o Fill(WordSize * n, 1) : n \in 0..MaxArrayLen}

\* a length word followed by some content
LengthBuffers ==
  {Word(0, 0, a, b, e, c, d) \o Fill(n, 7) :
     a \in {0, 127, 128, 255}, b \in {0, 255}, e \in {0, 255}, c \in {0, 255},
     d \in {0, 1, 2, 32, 33, 255}, n \in {0, 32, 64}}

\* revert data: the selector of InsufficientBalance(address,uint256,uint256),
\* then the parameters
RevertBuffers ==
  {<<219, 66, 20, 77>> \o data :
     data \in AbiStringUints \cup {AbiUser(1), U256(7), <<>>}}

Buffers ==
  Words \cup ShortBuffers \cup AbiStrings \cup AbiStringUints \cup AbiUintStrings
    \cup AbiProfiles \cup AbiUserArrays \cup AbiUintArrays \cup LengthBuffers
    \cup RevertBuffers

(***************************************************************************)
(* The contract the decoders are generated for                             *)
(***************************************************************************)
Prim(name) == GoType(name, FALSE, FALSE, "")

Int256Type == GoType("*big.Int", TRUE, FALSE, "")

SliceOf(elem) == GoType("[]" \o elem, FALSE, TRUE, elem)

Field(name, type) == [Name |-> name, Type |-> type]

\* struct User { uint256 id; address wallet; bool active; }
UserStruct ==
  [Name |-> "User",
   Fields |-> <<Field("Id", Prim("*big.Int")), Field("Wallet", Prim("Address")),
                Field("Active", Prim("bool"))>>]

\* struct Profile { uint256 id; string name; uint8 age; }
ProfileStruct ==
  [Name |-> "Profile",
   Fields |-> <<Field("Id", Prim("*big.Int")), Field("Name", Prim("string")),
                Field("Age", Prim("uint8"))>>]

Structs == <<UserStruct, ProfileStruct>>

Out(type) == Param("", type, FALSE)

\* the outputs of the methods with one return value; a lone []*big.Int,
\* []uint64, []Address or []bool is absent, since the code generated for it
\* assigns to an undeclared err and does not build
SingleOutputs ==
  {<<Out(type)>> :
     type \in {Prim(name) : name \in SingleStatic \cup {"string", "[]byte", "User", "Profile"}}
                \cup {Int256Type, SliceOf("User"), SliceOf("string")}}

\* the outputs of the methods with several return values
MultiOutputs ==
  {<<Out(Prim("string")), Out(Prim("*big.Int"))>>,
   <<Out(Prim("*big.Int")), Out(Prim("string"))>>,
   <<Out(Prim("[]byte")), Out(Prim("bool"))>>,
   <<Out(SliceOf("*big.Int")), Out(Prim("*big.Int"))>>,
   <<Out(Prim("*big.Int")), Out(Prim("Address")), Out(Prim("bool"))>>,
   <<Out(Prim("*big.Int")), Out(Int256Type), Out(Int256Type)>>,
   <<Out(Prim("User")), Out(Prim("*big.Int"))>>,
   <<Out(SliceOf("User")), Out(Prim("bool"))>>,
   <<Out(Prim("uint64")), Out(Prim("uint8"))>>}

\* the inputs of the events
EventInputs ==
  {<<Param("from", Prim("Address"), TRUE), Param("to", Prim("Address"), TRUE),
     Param("value", Prim("*big.Int"), FALSE)>>,
   <<Param("memo", Prim("string"), FALSE), Param("value", Prim("*big.Int"), FALSE)>>,
   <<Param("id", Prim("*big.Int"), TRUE), Param("data", Prim("[]byte"), FALSE),
     Param("ok", Prim("bool"), FALSE)>>,
   <<Param("ids", SliceOf("*big.Int"), FALSE)>>}

\* the inputs of the custom errors
\* the selectors of the error decoders: InsufficientBalance(address,uint256,
\* uint256) of the revert data, and another error
ErrorSelectors == {<<219, 66, 20, 77>>, <<207, 71, 145, 129>>}

ErrorInputs ==
  {<<Param("account", Prim("Address"), FALSE), Param("requested", Prim("*big.Int"), FALSE),
     Param("available", Prim("*big.Int"), FALSE)>>,
   <<Param("reason", Prim("string"), FALSE), Param("code", Prim("*big.Int"), FALSE)>>,
   <<Param("code", Prim("uint8"), FALSE)>>}

(***************************************************************************)
(* The parser (package parse).  A Go string is a sequence of one-character *)
(* strings, so that indexing, slicing and the strings package act on it.   *)
(***************************************************************************)
Lowers ==
  <<"a", "b", "c", "d", "e", "f", "g", "h", "i", "j", "k", "l", "m",
    "n", "o", "p", "q", "r", "s", "t", "u", "v", "w", "x", "y", "z">>

Uppers ==
  <<"A", "B", "C", "D", "E", "F", "G", "H", "I", "J", "K", "L", "M",
    "N", "O", "P", "Q", "R", "S", "T", "U", "V", "W", "X", "Y", "Z">>

Digits == <<"0", "1", "2", "3", "4", "5", "6", "7", "8", "9">>

\* the characters of the model in the order of their byte values
Ascii ==
  <<" ", "(", ")", "*", ",", ".">> \o Digits \o <<":">> \o Uppers
    \o <<"[", "]", "_">> \o Lowers

\* the place of c in a sequence that holds it
Position(seq, c) == CHOOSE i \in DOMAIN seq : seq[i] = c

\* r >= 'a' && r <= 'z'
IsLower(c) == \E i \in DOMAIN Lowers : Lowers[i] = c

\* r >= 'A' && r <= 'Z'
IsUpper(c) == \E i \in DOMAIN Uppers : Uppers[i] = c

\* r >= '0' && r <= '9'
IsDigit(c) == \E i \in DOMAIN Digits : Digits[i] = c

\* strings.ToUpper
ToUpper(s) ==
  [i \in DOMAIN s |-> IF IsLower(s[i]) THEN Uppers[Position(Lowers, s[i])] ELSE s[i]]

\* strings.ToLower
ToLower(s) ==
  [i \in DOMAIN s |-> IF IsUpper(s[i]) THEN Lowers[Position(Uppers, s[i])] ELSE s[i]]

\* strings.HasPrefix
HasPrefix(s, prefix) == Len(s) >= Len(prefix) /\ SubSeq(s, 1, Len(prefix)) = prefix

\* strings.HasSuffix
HasSuffix(s, suffix) ==
  Len(s) >= Len(suffix) /\ SubSeq(s, Len(s) - Len(suffix) + 1, Len(s)) = suffix

\* strings.Index for a separator of one character: the index from 0 of its
\* first occurrence, or -1
Index(s, c) ==
  IF \E i \in DOMAIN s : s[i] = c
  THEN (CHOOSE i \in DOMAIN s : s[i] = c /\ \A j \in 1..(i - 1) : s[j] # c) - 1
  ELSE -1

\* strings.Contains for one character
Contains(s, c) == Index(s, c) # -1

RECURSIVE Split(_, _)
\* strings.Split for a separator of one character
Split(s, c) ==
  IF Index(s, c) = -1 THEN <<s>>
  ELSE <<Slice(s, 0, Index(s, c))>> \o Split(Slice(s, Index(s, c) + 1, Len(s)), c)

RECURSIVE Join(_, _)
\* strings.Join
Join(elems, sep) ==
  IF elems = <<>> THEN <<>>
  ELSE IF Len(elems) = 1 THEN elems[1]
  ELSE elems[1] \o sep \o Join(Tail(elems), sep)

RECURSIVE TrimSpace(_)
\* strings.TrimSpace
TrimSpace(s) ==
  IF s # <<>> /\ s[1] = " " THEN TrimSpace(Tail(s))
  ELSE IF s # <<>> /\ s[Len(s)] = " " THEN TrimSpace(Slice(s, 0, Len(s) - 1))
  ELSE s

RECURSIVE Itoa(_)
\* fmt.Sprintf("%d", n) for n >= 0
Itoa(n) ==
  IF n < 10 THEN <<Digits[n + 1]>>
  ELSE Itoa(n \div 10) \o <<Digits[(n % 10) + 1]>>

\* a < b on strings: byte by byte
StringLess(a, b) ==
  \E i \in 1..Len(b) :
    /\ Len(a) >= i - 1
    /\ SubSeq(a, 1, i - 1) = SubSeq(b, 1, i - 1)
    /\ (Len(a) = i - 1 \/ Position(Ascii, a[i]) < Position(Ascii, b[i]))

\* exportIdentifier: the first letter in upper case
exportIdentifier(name) ==
  IF name = <<>> THEN <<"F", "i", "e", "l", "d">>
  ELSE IF HasPrefix(name, <<"_">>) /\ Len(name) = 1 THEN <<"F", "i", "e", "l", "d">>
  ELSE IF HasPrefix(name, <<"_">>) THEN ToUpper(<<name[2]>>) \o Slice(name, 2, Len(name))
  ELSE ToUpper(<<name[1]>>) \o Slice(name, 1, Len(name))

\* sanitizeIdentifier: every rune that is no letter, no digit past the
\* first place and no underscore becomes an underscore
sanitizeIdentifier(name) ==
  IF name = <<>> THEN <<"F", "i", "e", "l", "d">>
  ELSE LET id == [i \in DOMAIN name |->
                    IF \/ IsLower(name[i]) \/ IsUpper(name[i])
                       \/ (i > 1 /\ IsDigit(name[i])) \/ name[i] = "_"
                    THEN name[i] ELSE "_"]
       IN  IF IsDigit(id[1]) THEN <<"F", "i", "e", "l", "d", "_">> \o id ELSE id

\* sanitizePackageName: the letters and digits of the name in lower case,
\* behind "contract" when nothing is left or a digit comes first
sanitizePackageName(name) ==
  LET pkg == SelectSeq(ToLower(name), LAMBDA r : IsLower(r) \/ IsDigit(r))
  IN  IF pkg = <<>> \/ IsDigit(pkg[1])
      THEN <<"c", "o", "n", "t", "r", "a", "c", "t">> \o pkg
      ELSE pkg

\* prefixHex
prefixHex(hex) ==
  IF hex = <<>> THEN <<>>
  ELSE IF HasPrefix(hex, <<"0", "x">>) THEN hex
  ELSE <<"0", "x">> \o hex

RECURSIVE normalizeTypeForNaming(_)
normalizeTypeForNaming(typeName) ==
  IF HasSuffix(typeName, <<"[", "]">>)
  THEN normalizeTypeForNaming(Slice(typeName, 0, Len(typeName) - 2))
         \o <<"A", "r", "r", "a", "y">>
  ELSE IF Contains(typeName, "[") /\ Contains(typeName, "]")
  THEN normalizeTypeForNaming(Slice(typeName, 0, Index(typeName, "[")))
         \o <<"F", "i", "x", "e", "d", "A", "r", "r", "a", "y">>
  ELSE IF typeName = <<"u", "i", "n", "t", "2", "5", "6">>
  THEN <<"U", "i", "n", "t", "2", "5", "6">>
  ELSE IF typeName = <<"a", "d", "d", "r", "e", "s", "s">>
  THEN <<"A", "d", "d", "r", "e", "s", "s">>
  ELSE IF typeName = <<"b", "o", "o", "l">> THEN <<"B", "o", "o", "l">>
  ELSE IF typeName = <<"s", "t", "r", "i", "n", "g">> THEN <<"S", "t", "r", "i", "n", "g">>
  ELSE IF typeName = <<"b", "y", "t", "e", "s">> THEN <<"B", "y", "t", "e", "s">>
  ELSE IF HasPrefix(typeName, <<"u", "i", "n", "t">>) /\ Len(typeName) > 4
  THEN <<"U", "i", "n", "t">> \o Slice(typeName, 4, Len(typeName))
  ELSE IF HasPrefix(typeName, <<"i", "n", "t">>) /\ Len(typeName) > 3
  THEN <<"I", "n", "t">> \o Slice(typeName, 3, Len(typeName))
  ELSE IF HasPrefix(typeName, <<"b", "y", "t", "e", "s">>) /\ Len(typeName) > 5
  THEN <<"B", "y", "t", "e", "s">> \o Slice(typeName, 5, Len(typeName))
  ELSE exportIdentifier(typeName)

\* the longest name generateOverloadName builds from the parameter types
MaxCandidate == 50

\* fmt.Sprintf("%s__%s", baseName, selector[2:])
selectorName(baseName, selector) ==
  baseName \o <<"_", "_">> \o Slice(selector, 2, Len(selector))

\* the candidate name of a signature with parameters
candidateName(baseName, paramStr) ==
  baseName \o <<"_">>
    \o Join([i \in DOMAIN Split(paramStr, ",") |->
               normalizeTypeForNaming(TrimSpace(Split(paramStr, ",")[i]))], <<"_">>)

\* signature[start+1 : end]
paramString(signature) ==
  Slice(signature, Index(signature, "(") + 1, Index(signature, ")"))

\* the selector holds at least the two characters selector[2:] skips
generateOverloadName(baseName, signature, selector) ==
  IF \/ Index(signature, "(") = -1 \/ Index(signature, ")") = -1
     \/ Index(signature, ")") <= Index(signature, "(")
  THEN selectorName(baseName, selector)
  ELSE IF paramString(signature) = <<>>
  THEN baseName \o <<"_", "N", "o", "A", "r", "g", "s">>
  ELSE IF Len(candidateName(baseName, paramString(signature))) > MaxCandidate
  THEN selectorName(baseName, selector)
  ELSE candidateName(baseName, paramString(signature))

\* types.GoType
TypesGoType(import, typeName, isSlice, isPtr) ==
  [Import |-> import, TypeName |-> typeName, IsSlice |-> isSlice, IsPtr |-> isPtr]

\* types.GoType{}
NoGoType == TypesGoType("", <<>>, FALSE, FALSE)

GoTypeBigInt == TypesGoType("math/big", <<"*", "b", "i", "g", ".", "I", "n", "t">>, FALSE, TRUE)

GoTypeAddress ==
  TypesGoType("github.com/ethereum/go-ethereum/common",
              <<"c", "o", "m", "m", "o", "n", ".", "A", "d", "d", "r", "e", "s", "s">>,
              FALSE, FALSE)

GoTypeHash ==
  TypesGoType("github.com/ethereum/go-ethereum/common",
              <<"c", "o", "m", "m", "o", "n", ".", "H", "a", "s", "h">>, FALSE, FALSE)

\* mapUintType: GoTypeUint8 .. GoTypeUint64, or GoTypeBigInt
mapUintType(size) ==
  IF size \in {8, 16, 32, 64}
  THEN TypesGoType("", <<"u", "i", "n", "t">> \o Itoa(size), FALSE, FALSE)
  ELSE GoTypeBigInt

\* mapIntType: GoTypeInt8 .. GoTypeInt64, or GoTypeBigInt
mapIntType(size) ==
  IF size \in {8, 16, 32, 64}
  THEN TypesGoType("", <<"i", "n", "t">> \o Itoa(size), FALSE, FALSE)
  ELSE GoTypeBigInt

\* abi.Type: the kind T, Size, the element type Elem of a slice or an array
\* (a sequence of at most one type), and the raw name, the element types and
\* the field names of a tuple
AbiType(T, Size, Elem, TupleRawName, TupleElems, TupleRawNames) ==
  [T |-> T, Size |-> Size, Elem |-> Elem, TupleRawName |-> TupleRawName,
   TupleElems |-> TupleElems, TupleRawNames |-> TupleRawNames]

\* the rightmost upper-case letter behind a lower-case one, as an index
\* from 0; 0 when there is none
lastCapital(rawName) ==
  IF \E k \in 2..Len(rawName) : IsUpper(rawName[k]) /\ IsLower(rawName[k - 1])
  THEN (CHOOSE k \in 2..Len(rawName) :
          /\ IsUpper(rawName[k]) /\ IsLower(rawName[k - 1])
          /\ \A j \in (k + 1)..Len(rawName) :
               ~(IsUpper(rawName[j]) /\ IsLower(rawName[j - 1]))) - 1
  ELSE 0

\* extractStructName behind the "struct " prefix
extractUnprefixed(rawName) ==
  IF Len(Split(rawName, ".")) > 1
  THEN exportIdentifier(Split(rawName, ".")[Len(Split(rawName, "."))])
  ELSE IF lastCapital(rawName) > 0
  THEN exportIdentifier(Slice(rawName, lastCapital(rawName), Len(rawName)))
  ELSE exportIdentifier(rawName)

extractStructName(rawName) ==
  IF rawName = <<>> THEN <<>>
  ELSE IF HasPrefix(rawName, <<"s", "t", "r", "u", "c", "t", " ">>)
  THEN extractUnprefixed(Slice(rawName, 7, Len(rawName)))
  ELSE extractUnprefixed(rawName)

AnonymousTuple == <<"A", "n", "o", "n", "y", "m", "o", "u", "s", "T", "u", "p", "l", "e">>

\* the name mapSolidityToGoType gives a tuple
tupleName(abiType) ==
  IF extractStructName(abiType.TupleRawName) = <<>> THEN AnonymousTuple
  ELSE extractStructName(abiType.TupleRawName)

\* a (types.GoType, error) result
Mapped(type, err) == [type |-> type, err |-> err]

\* the GoType of a slice from the result for its element
sliceOf(elem) ==
  IF elem.err # "" THEN Mapped(NoGoType, elem.err)
  ELSE Mapped(TypesGoType(elem.type.Import, <<"[", "]">> \o elem.type.TypeName, TRUE, FALSE), "")

\* the GoType of an array of size elements from the result for its element
arrayOf(size, elem) ==
  IF elem.err # "" THEN Mapped(NoGoType, elem.err)
  ELSE Mapped(TypesGoType(elem.type.Import,
                          <<"[">> \o Itoa(size) \o <<"]">> \o elem.type.TypeName,
                          FALSE, FALSE), "")

RECURSIVE mapSolidityToGoType(_)
mapSolidityToGoType(abiType) ==
  CASE abiType.T = "BoolTy" -> Mapped(TypesGoType("", <<"b", "o", "o", "l">>, FALSE, FALSE), "")
    [] abiType.T = "StringTy" ->
         Mapped(TypesGoType("", <<"s", "t", "r", "i", "n", "g">>, FALSE, FALSE), "")
    [] abiType.T = "BytesTy" ->
         Mapped(TypesGoType("", <<"[", "]", "b", "y", "t", "e">>, FALSE, FALSE), "")
    [] abiType.T = "AddressTy" -> Mapped(GoTypeAddress, "")
    [] abiType.T = "HashTy" -> Mapped(GoTypeHash, "")
    [] abiType.T = "UintTy" ->
         Mapped(IF abiType.Size <= 64 THEN mapUintType(abiType.Size) ELSE GoTypeBigInt, "")
    [] abiType.T = "IntTy" ->
         Mapped(IF abiType.Size <= 64 THEN mapIntType(abiType.Size) ELSE GoTypeBigInt, "")
    [] abiType.T = "FixedBytesTy" ->
         Mapped(TypesGoType("", <<"[">> \o Itoa(abiType.Size) \o <<"]", "b", "y", "t", "e">>,
                            FALSE, FALSE), "")
    [] abiType.T = "SliceTy" -> sliceOf(mapSolidityToGoType(abiType.Elem[1]))
    [] abiType.T = "ArrayTy" -> arrayOf(abiType.Size, mapSolidityToGoType(abiType.Elem[1]))
    [] abiType.T = "TupleTy" -> Mapped(TypesGoType("", tupleName(abiType), FALSE, FALSE), "")
    [] OTHER -> Mapped(NoGoType, "unsupported ABI type")

\* types.StructField
StructField(name, type) == [Name |-> name, Type |-> type, JSONTag |-> ToLower(name)]

\* types.Struct
Struct(name, fields) == [Name |-> name, Fields |-> fields]

\* a structRegistry: the map structs, from a struct name to its definition
newStructRegistry == <<>>

\* a (types.GoType, error) result and the registry the call leaves
MappedIn(m, registry) == [type |-> m.type, err |-> m.err, registry |-> registry]

\* the name of field i of a tuple
fieldName(abiType, i) ==
  IF i <= Len(abiType.TupleRawNames) /\ abiType.TupleRawNames[i] # <<>>
  THEN exportIdentifier(abiType.TupleRawNames[i])
  ELSE <<"F", "i", "e", "l", "d">> \o Itoa(i)

\* r.structs[structName] = types.Struct{...}
stored(structName, done) ==
  [name \in DOMAIN done.registry \cup {structName} |->
     IF name = structName THEN Struct(structName, done.fields) ELSE done.registry[name]]

RECURSIVE registerFields(_, _, _, _)
RECURSIVE mapSolidityToGoTypeWithRegistry(_, _)

\* the loop of registerStruct behind the mapping of field i: a field that
\* does not map is skipped
fieldNext(abiType, i, fields, m) ==
  registerFields(m.registry, abiType, i + 1,
                 IF m.err # "" THEN fields
                 ELSE Append(fields, StructField(fieldName(abiType, i), m.type)))

\* the loop of registerStruct from field i on
registerFields(r, abiType, i, fields) ==
  IF i > Len(abiType.TupleElems) THEN [registry |-> r, fields |-> fields]
  ELSE fieldNext(abiType, i, fields,
                 mapSolidityToGoTypeWithRegistry(abiType.TupleElems[i], r))

\* a variant that stores a name again when the registry holds it
registerStructAgain(r, structName, abiType) ==
  IF structName = <<>> \/ structName = AnonymousTuple THEN r
  ELSE stored(structName, registerFields(r, abiType, 1, <<>>))

\* registerStruct, on the map r
registerStruct(r, structName, abiType) ==
  IF structName = <<>> \/ structName = AnonymousTuple THEN r
  ELSE IF structName \in DOMAIN r THEN r
  ELSE stored(structName, registerFields(r, abiType, 1, <<>>))

\* the result for a slice or an array from the result for its element
elemMapped(abiType, elem) ==
  MappedIn(IF abiType.T = "SliceTy" THEN sliceOf(elem) ELSE arrayOf(abiType.Size, elem),
           elem.registry)

mapSolidityToGoTypeWithRegistry(abiType, registry) ==
  CASE abiType.T \in {"SliceTy", "ArrayTy"} ->
         elemMapped(abiType, mapSolidityToGoTypeWithRegistry(abiType.Elem[1], registry))
    [] abiType.T = "TupleTy" ->
         MappedIn(Mapped(TypesGoType("", tupleName(abiType), FALSE, FALSE), ""),
                  registerStruct(registry, tupleName(abiType), abiType))
    [] OTHER -> MappedIn(mapSolidityToGoType(abiType), registry)

\* getAllStructs: the structs of the registry by ascending name
RECURSIVE getAllStructs(_)
getAllStructs(r) ==
  IF DOMAIN r = {} THEN <<>>
  ELSE LET first == CHOOSE name \in DOMAIN r :
                      \A other \in DOMAIN r \ {name} : StringLess(name, other)
       IN  <<r[first]>> \o getAllStructs([name \in DOMAIN r \ {first} |-> r[name]])

\* types.Parameter
Parameter(name, type, indexed) == [Name |-> name, Type |-> type, Indexed |-> indexed]

\* a ([]types.Parameter, error) result and the registry the call leaves
Parsed(params, err, registry) == [params |-> params, err |-> err, registry |-> registry]

\* the parameter made of argument i and its mapped type
parameterOf(args, allowIndexed, i, type) ==
  Parameter(sanitizeIdentifier(IF args[i].Name = <<>>
                               THEN <<"F", "i", "e", "l", "d">> \o Itoa(i)
                               ELSE args[i].Name),
            type, allowIndexed /\ args[i].Indexed)

RECURSIVE parametersFrom(_, _, _, _, _)

\* the loop of parseParametersWithRegistry behind the mapping of argument i
parameterNext(args, allowIndexed, i, params, m) ==
  IF m.err # "" THEN Parsed(<<>>, m.err, m.registry)
  ELSE parametersFrom(args, allowIndexed, i + 1,
                      Append(params, parameterOf(args, allowIndexed, i, m.type)),
                      m.registry)

\* the loop of parseParametersWithRegistry from argument i on
parametersFrom(args, allowIndexed, i, params, registry) ==
  IF i > Len(args) THEN Parsed(params, "", registry)
  ELSE parameterNext(args, allowIndexed, i, params,
                     mapSolidityToGoTypeWithRegistry(args[i].Type, registry))

parseParametersWithRegistry(args, allowIndexed, registry) ==
  parametersFrom(args, allowIndexed, 1, <<>>, registry)

\* parseParameters: a ([]types.Parameter, error) result
parseParameters(args, allowIndexed) ==
  IF \E i \in DOMAIN args : mapSolidityToGoType(args[i].Type).err # ""
  THEN [params |-> <<>>, err |-> "unsupported ABI type"]
  ELSE [params |-> [i \in DOMAIN args |->
                      parameterOf(args, allowIndexed, i,
                                  mapSolidityToGoType(args[i].Type).type)],
        err |-> ""]

parametersToFields(params) ==
  [i \in DOMAIN params |->
     [Name |-> exportIdentifier(params[i].Name), Type |-> params[i].Type,
      JSONTag |-> ToLower(params[i].Name)]]

\* a *types.Struct that is set when there are several parameters: a
\* sequence of at most one struct
structIfSeveral(name, params) ==
  IF Len(params) > 1 THEN <<Struct(name, parametersToFields(params))>> ELSE <<>>

\* a < b on keys, which are sequences of strings: by the first component
\* that differs
KeyLess(a, b) ==
  \E i \in DOMAIN a :
    /\ \A j \in 1..(i - 1) : a[j] = b[j]
    /\ StringLess(a[i], b[i])

\* s without its element i
Without(s, i) == SubSeq(s, 1, i - 1) \o SubSeq(s, i + 1, Len(s))

\* the index of a least key
leastKey(keys) ==
  CHOOSE i \in DOMAIN keys :
    \A j \in DOMAIN keys : ~KeyLess(keys[j], keys[i]) /\ (keys[j] = keys[i] => i <= j)

RECURSIVE sortSlice(_, _)
\* sort.Slice of items by keys no two items share
sortSlice(items, keys) ==
  IF items = <<>> THEN <<>>
  ELSE <<items[leastKey(keys)]>>
         \o sortSlice(Without(items, leastKey(keys)), Without(keys, leastKey(keys)))

\* a variant that gives a signature the table lacks the digits of zero
identifierOrZero(methodIds, sig) ==
  IF sig \in DOMAIN methodIds /\ methodIds[sig] # <<>> THEN methodIds[sig] ELSE <<"0", "0", "0", "0", "0", "0", "0", "0">>

\* methodIds[sig]: "" for a signature the map does not hold
identifier(methodIds, sig) == IF sig \in DOMAIN methodIds THEN methodIds[sig] ELSE <<>>

\* methodNames[name]: the number of methods of that name
methodCount(abiMethods, name) == Cardinality({i \in DOMAIN abiMethods : abiMethods[i].Name = name})

\* the name parseMethodsWithRegistry gives method i
methodNameOf(abiMethods, methodIds, i) ==
  IF methodCount(abiMethods, abiMethods[i].Name) > 1
  THEN generateOverloadName(abiMethods[i].Name, abiMethods[i].Sig,
                            identifier(methodIds, abiMethods[i].Sig))
  ELSE abiMethods[i].Name

\* types.Method
Method(methodName, method, selector, inputs, outputs) ==
  [Name |-> methodName, Signature |-> method.Sig, Selector |-> <<"0", "x">> \o selector,
   Inputs |-> inputs, Outputs |-> outputs,
   InputStruct |-> structIfSeveral(exportIdentifier(methodName) \o <<"I", "n", "p", "u", "t">>,
                                   inputs),
   OutputStruct |-> structIfSeveral(exportIdentifier(methodName)
                                      \o <<"O", "u", "t", "p", "u", "t">>, outputs)]

\* a ([]types.Method, error) result and the registry the call leaves
ParsedMethods(methods, err, registry) ==
  [methods |-> methods, err |-> err, registry |-> registry]

RECURSIVE methodsFrom(_, _, _, _, _)

\* the second pass behind the outputs of method i
methodOutputs(abiMethods, methodIds, i, methods, inputs, outputs) ==
  IF outputs.err # "" THEN ParsedMethods(<<>>, outputs.err, outputs.registry)
  ELSE methodsFrom(abiMethods, methodIds, i + 1,
                   Append(methods,
                          Method(methodNameOf(abiMethods, methodIds, i), abiMethods[i],
                                 identifier(methodIds, abiMethods[i].Sig),
                                 inputs, outputs.params)),
                   outputs.registry)

\* the second pass behind the inputs of method i
methodInputs(abiMethods, methodIds, i, methods, inputs) ==
  IF inputs.err # "" THEN ParsedMethods(<<>>, inputs.err, inputs.registry)
  ELSE methodOutputs(abiMethods, methodIds, i, methods, inputs.params,
                     parseParametersWithRegistry(abiMethods[i].Outputs, FALSE,
                                                 inputs.registry))

\* the second pass of parseMethodsWithRegistry from method i on
methodsFrom(abiMethods, methodIds, i, methods, registry) ==
  IF i > Len(abiMethods) THEN ParsedMethods(methods, "", registry)
  ELSE IF identifier(methodIds, abiMethods[i].Sig) = <<>>
  THEN ParsedMethods(<<>>, "missing method identifier", registry)
  ELSE methodInputs(abiMethods, methodIds, i, methods,
                    parseParametersWithRegistry(abiMethods[i].Inputs, FALSE, registry))

\* the methods by (Name, Signature)
sortedMethods(r) ==
  IF r.err # "" THEN r
  ELSE ParsedMethods(sortSlice(r.methods,
                               [i \in DOMAIN r.methods |->
                                  <<r.methods[i].Name, r.methods[i].Signature>>]),
                     "", r.registry)

\* abiMethods is parsedABI.Methods in the order the range over the map
\* takes
parseMethodsWithRegistry(abiMethods, methodIds, registry) ==
  sortedMethods(methodsFrom(abiMethods, methodIds, 1, <<>>, registry))

\* crypto.Keccak256 of a signature: the hash is not computed, two
\* signatures have the same hash when they are equal
Keccak256(sig) == [keccak256 |-> sig]

\* a ([]types.Event, error) result and the registry the call leaves
ParsedEvents(events, err, registry) == [events |-> events, err |-> err, registry |-> registry]

RECURSIVE eventsFrom(_, _, _)

\* the loop of parseEventsWithRegistry behind the inputs of event i
eventInputs(abiEvents, i, events, inputs) ==
  IF inputs.err # "" THEN ParsedEvents(<<>>, inputs.err, inputs.registry)
  ELSE eventsFrom(abiEvents, i + 1,
                  [events |-> Append(events,
                      [Name |-> abiEvents[i].Name, Topic |-> Keccak256(abiEvents[i].Sig),
                       Inputs |-> inputs.params,
                       Struct |-> Struct(abiEvents[i].Name \o <<"E", "v", "e", "n", "t">>,
                                         parametersToFields(inputs.params))]),
                   registry |-> inputs.registry])

\* the loop of parseEventsWithRegistry from event i on; acc holds the
\* events so far and the registry
eventsFrom(abiEvents, i, acc) ==
  IF i > Len(abiEvents) THEN ParsedEvents(acc.events, "", acc.registry)
  ELSE eventInputs(abiEvents, i, acc.events,
                   parseParametersWithRegistry(abiEvents[i].Inputs, TRUE, acc.registry))

\* abiEvents is parsedABI.Events in the order the range over the map takes
parseEventsWithRegistry(abiEvents, registry) ==
  eventsFrom(abiEvents, 1, [events |-> <<>>, registry |-> registry])

\* types.ContractError of error i; the selector is the first ten characters
\* of the hash in hexadecimal
contractError(abiErrors, i) ==
  [Name |-> abiErrors[i].Name, Signature |-> abiErrors[i].Sig,
   Selector |-> [hex10 |-> Keccak256(abiErrors[i].Sig)],
   Inputs |-> parseParameters(abiErrors[i].Inputs, FALSE).params,
   Struct |-> Struct(abiErrors[i].Name \o <<"E", "r", "r", "o", "r">>,
                     parametersToFields(parseParameters(abiErrors[i].Inputs, FALSE).params))]

\* abiErrors is parsedABI.Errors in the order the range over the map takes;
\* the errors by Name
parseErrors(abiErrors) ==
  IF \E i \in DOMAIN abiErrors : parseParameters(abiErrors[i].Inputs, FALSE).err # ""
  THEN [errors |-> <<>>, err |-> "unsupported ABI type"]
  ELSE [errors |-> sortSlice([i \in DOMAIN abiErrors |-> contractError(abiErrors, i)],
                             [i \in DOMAIN abiErrors |-> <<abiErrors[i].Name>>]),
        err |-> ""]

\* parseConstructor: a sequence of at most one types.Constructor; the link
\* references are copied from the bytecode and left out
parseConstructor(constructor) ==
  IF constructor.Type # "constructor" THEN <<>>
  ELSE IF parseParameters(constructor.Inputs, FALSE).err # "" THEN <<>>
  ELSE <<[Signature |-> constructor.Sig,
          Inputs |-> parseParameters(constructor.Inputs, FALSE).params,
          InputStruct |-> structIfSeveral(<<"C", "o", "n", "s", "t", "r", "u", "c", "t", "o", "r",
                                            "I", "n", "p", "u", "t">>,
                                          parseParameters(constructor.Inputs, FALSE).params)]>>

\* a (*types.Contract, error) result; contract is a sequence of at most one
\* contract
ParsedContract(contract, err) == [contract |-> contract, err |-> err]

\* parseContract behind parseEventsWithRegistry
contractEvents(sourceFile, contractName, parsedABI, methods, events) ==
  IF events.err # "" THEN ParsedContract(<<>>, "parsing events: " \o events.err)
  ELSE IF parseErrors(parsedABI.Errors).err # "" THEN ParsedContract(<<>>, "parsing errors: " \o parseErrors(parsedABI.Errors).err)
  ELSE ParsedContract(
         <<[Name |-> contractName, SourceFile |-> sourceFile,
            PackageName |-> sanitizePackageName(contractName),
            Methods |-> methods, Events |-> events.events,
            Errors |-> parseErrors(parsedABI.Errors).errors,
            Constructor |-> parseConstructor(parsedABI.Constructor),
            Structs |-> getAllStructs(events.registry)]>>, "")

\* parseContract behind parseMethodsWithRegistry
contractMethods(sourceFile, contractName, parsedABI, methods) ==
  IF methods.err # "" THEN ParsedContract(<<>>, "parsing methods: " \o methods.err)
  ELSE contractEvents(sourceFile, contractName, parsedABI, methods.methods,
                      parseEventsWithRegistry(parsedABI.Events, methods.registry))

\* parseContract: result.ABI is the ABI as abi.JSON parses it, or one it
\* rejects; the ABI text and the bytecode are copied and left out
parseContract(sourceFile, contractName, result) ==
  IF ~result.ABI.valid THEN ParsedContract(<<>>, "parsing ABI")
  ELSE contractMethods(sourceFile, contractName, result.ABI,
                       parseMethodsWithRegistry(result.ABI.Methods,
                                                result.EVM.MethodIdentifiers,
                                                newStructRegistry))

\* a variant that compares the package names of one source file only
packageCollisionInFile(contracts) ==
  \E i, j \in DOMAIN contracts :
    /\ i # j
    /\ contracts[i].SourceFile = contracts[j].SourceFile
    /\ sanitizePackageName(contracts[i].Name) = sanitizePackageName(contracts[j].Name)

\* the first pass of ResultWithVersion: some package name has two contracts
packageCollision(contracts) ==
  \E i, j \in DOMAIN contracts :
    /\ i # j
    /\ sanitizePackageName(contracts[i].Name) = sanitizePackageName(contracts[j].Name)

RECURSIVE contractsFrom(_, _, _)

\* a variant that leaves a contract that fails out and goes on
contractNextSkipping(contracts, i, parsed, c) ==
  contractsFrom(contracts, i + 1, IF c.err # "" THEN parsed ELSE parsed \o c.contract)

\* the second pass behind parseContract of contract i
contractNext(contracts, i, parsed, c) ==
  IF c.err # "" THEN [contracts |-> <<>>, err |-> "parsing contract: " \o c.err]
  ELSE contractsFrom(contracts, i + 1, parsed \o c.contract)

\* the second pass of ResultWithVersion from contract i on, and the sort by
\* (SourceFile, Name)
contractsFrom(contracts, i, parsed) ==
  IF i > Len(contracts)
  THEN [contracts |-> sortSlice(parsed, [k \in DOMAIN parsed |->
                                           <<parsed[k].SourceFile, parsed[k].Name>>]),
        err |-> ""]
  ELSE contractNext(contracts, i, parsed,
                    parseContract(contracts[i].SourceFile, contracts[i].Name,
                                  contracts[i].Result))

\* ResultWithVersion: contracts is result.Contracts in the order the ranges
\* over the two maps take, each contract with its source file and its name;
\* the solc version is copied into each contract and left out
ResultWithVersion(contracts) ==
  IF packageCollision(contracts) THEN [contracts |-> <<>>, err |-> "package name collision"]
  ELSE contractsFrom(contracts, 1, <<>>)

(***************************************************************************)
(* Contracts parsed by several tasks at once                               *)
(***************************************************************************)
\* the tasks that parse contracts side by side: the registries that
\* newStructRegistry has made, and for each task the contract it parses,
\* the statement of parseContract it stands before, the methods and the
\* events it has parsed, and what parseContract returns
NoTasks == [heap |-> <<>>, workers |-> <<>>]

\* a task before the first statement of parseContract
Worker(entry) ==
  [entry |-> entry, step |-> "methods", methods |-> <<>>,
   events |-> ParsedEvents(<<>>, "", newStructRegistry),
   parsed |-> ParsedContract(<<>>, "")]

\* a variant in which every task works on the registry of the first
registryOfFirst(k) == 1

\* registry := newStructRegistry() in parseContract: the registry of task k
\* is the one its own call has made
registryOf(k) == k

\* parseContract returns
Finished(ts, k, parsed) ==
  [ts EXCEPT !.workers[k].step = "done", !.workers[k].parsed = parsed]

\* parseContract of task k behind parseMethodsWithRegistry
taskMethods(ts, k, methods) ==
  IF methods.err # ""
  THEN Finished(ts, k, contractMethods(ts.workers[k].entry.SourceFile,
                                       ts.workers[k].entry.Name,
                                       ts.workers[k].entry.Result.ABI, methods))
  ELSE [ts EXCEPT !.heap[registryOf(k)] = methods.registry,
                  !.workers[k].methods = methods.methods,
                  !.workers[k].step = "events"]

\* parseContract of task k from abi.JSON to parseMethodsWithRegistry
parseContractMethods(ts, k) ==
  IF ~ts.workers[k].entry.Result.ABI.valid
  THEN Finished(ts, k, ParsedContract(<<>>, "parsing ABI"))
  ELSE taskMethods(ts, k,
                   parseMethodsWithRegistry(ts.workers[k].entry.Result.ABI.Methods,
                                            ts.workers[k].entry.Result.EVM.MethodIdentifiers,
                                            ts.heap[registryOf(k)]))

\* parseContract of task k behind parseEventsWithRegistry
taskEvents(ts, k, events) ==
  [ts EXCEPT !.heap[registryOf(k)] = events.registry,
             !.workers[k].events = events,
             !.workers[k].step = "finish"]

\* parseContract of task k at parseEventsWithRegistry
parseContractEvents(ts, k) ==
  taskEvents(ts, k, parseEventsWithRegistry(ts.workers[k].entry.Result.ABI.Events,
                                            ts.heap[registryOf(k)]))

\* parseContract of task k from the check of the events to the return, with
\* registry.getAllStructs() on the registry as it is then
parseContractFinish(ts, k) ==
  Finished(ts, k,
           contractEvents(ts.workers[k].entry.SourceFile, ts.workers[k].entry.Name,
                          ts.workers[k].entry.Result.ABI, ts.workers[k].methods,
                          [ts.workers[k].events EXCEPT
                             !.registry = ts.heap[registryOf(k)]]))

(***************************************************************************)
(* The process-json command and the generator                              *)
(***************************************************************************)
\* strings.SplitN(s, c, 2) for a separator of one character
SplitN2(s, c) ==
  IF Index(s, c) = -1 THEN <<s>>
  ELSE <<Slice(s, 0, Index(s, c)), Slice(s, Index(s, c) + 1, Len(s))>>

\* convertCombinedToStandard: combined is combinedJSON.Contracts, a contract
\* under each key; the range ends at the first key that does not split in
\* two, so a result comes back only when every key splits
convertCombinedToStandard(combined) ==
  IF \E c \in combined : Len(SplitN2(c.key, ":")) # 2
  THEN [result |-> {}, err |-> "invalid contract key format"]
  ELSE [result |-> {[SourceFile |-> SplitN2(c.key, ":")[1],
                     Name |-> SplitN2(c.key, ":")[2],
                     Result |-> c.Result] : c \in combined},
        err |-> ""]

\* generateContractPackage: filepath.Join(g.outputDir, contract.PackageName)
pkgDir(outputDir, contract) == outputDir \o <<"/">> \o contract.PackageName

\* generateContractPackage: filepath.Join(pkgDir, contract.PackageName+".go")
filePath(outputDir, contract) ==
  pkgDir(outputDir, contract) \o <<"/">> \o contract.PackageName \o <<".", "g", "o">>

\* one call of runProcessJSON: where it stands, flags.Output, what stdin
\* holds (no byte, bytes json.Unmarshal rejects, or the contracts of the
\* combined JSON it yields), the standard result, the contracts
\* ResultWithVersion returned, the index of the contract Generate is at, the
\* directories and the files written, and the error returned
NoRun ==
  [step |-> "", output |-> <<>>, stdin |-> [data |-> "", contracts |-> {}],
   standard |-> {}, contracts |-> <<>>, next |-> 0, dirs |-> {}, files |-> {},
   err |-> ""]

\* return fmt.Errorf(...), or return nil
Returning(r, e) == [r EXCEPT !.step = "returned", !.err = e]

\* runProcessJSON up to os.MkdirAll(flags.Output), made telling whether the
\* directory could be made
processStart(output, stdin, made) ==
  IF output = <<>>
  THEN Returning([NoRun EXCEPT !.output = output, !.stdin = stdin],
                 "output directory cannot be empty")
  ELSE IF ~made
  THEN Returning([NoRun EXCEPT !.output = output, !.stdin = stdin],
                 "failed to create output directory")
  ELSE [NoRun EXCEPT !.output = output, !.stdin = stdin, !.dirs = {output},
                     !.step = "read"]

\* runProcessJSON from io.ReadAll to convertCombinedToStandard, read telling
\* whether stdin could be read
processRead(r, read) ==
  IF ~read THEN Returning(r, "reading from stdin")
  ELSE IF r.stdin.data = "empty" THEN Returning(r, "no JSON data provided on stdin")
  ELSE IF r.stdin.data = "invalid" THEN Returning(r, "parsing combined JSON")
  ELSE IF r.stdin.contracts = {} THEN Returning(r, "no contracts found in JSON output")
  ELSE IF convertCombinedToStandard(r.stdin.contracts).err # ""
  THEN Returning(r, "converting JSON format: "
                      \o convertCombinedToStandard(r.stdin.contracts).err)
  ELSE [r EXCEPT !.standard = convertCombinedToStandard(r.stdin.contracts).result,
                 !.step = "parse"]

\* runProcessJSON behind parse.ResultWithVersion
processParsed(r, parsed) ==
  IF parsed.err # "" THEN Returning(r, "parsing failed: " \o parsed.err)
  ELSE [r EXCEPT !.contracts = parsed.contracts, !.step = "generate"]

\* Generate up to its loop, made telling whether os.MkdirAll could make the
\* output directory
generateStart(r, made) ==
  IF ~made THEN Returning(r, "code generation failed: creating output directory")
  ELSE IF r.contracts = <<>> THEN Returning([r EXCEPT !.dirs = @ \cup {r.output}], "")
  ELSE [r EXCEPT !.dirs = @ \cup {r.output}, !.next = 1, !.step = "package"]

\* one turn of the loop of Generate: generateContractPackage for the
\* contract at r.next, with whether the directory could be made, the
\* template rendered and the file written
generateContractPackage(r, made, rendered, written) ==
  IF ~made THEN Returning(r, "code generation failed: creating package directory")
  ELSE IF ~rendered
  THEN Returning([r EXCEPT !.dirs = @ \cup {pkgDir(r.output, r.contracts[r.next])}],
                 "code generation failed: rendering contract template")
  ELSE IF ~written
  THEN Returning([r EXCEPT !.dirs = @ \cup {pkgDir(r.output, r.contracts[r.next])}],
                 "code generation failed: writing file")
  ELSE IF r.next = Len(r.contracts)
  THEN Returning([r EXCEPT !.dirs = @ \cup {pkgDir(r.output, r.contracts[r.next])},
                           !.files = @ \cup {filePath(r.output, r.contracts[r.next])}],
                 "")
  ELSE [r EXCEPT !.dirs = @ \cup {pkgDir(r.output, r.contracts[r.next])},
                 !.files = @ \cup {filePath(r.output, r.contracts[r.next])},
                 !.next = @ + 1]

(***************************************************************************)
(* The inputs of the parser                                                *)
(***************************************************************************)
\* an abi.Type of an elementary kind
Elementary(T, Size) == AbiType(T, Size, <<>>, <<>>, <<>>, <<>>)

Uint256 == Elementary("UintTy", 256)

AddressType == Elementary("AddressTy", 20)

BoolType == Elementary("BoolTy", 0)

SliceType(elem) == AbiType("SliceTy", 0, <<elem>>, <<>>, <<>>, <<>>)

ArrayType(elem, size) == AbiType("ArrayTy", size, <<elem>>, <<>>, <<>>, <<>>)

TupleType(rawName, elems, names) == AbiType("TupleTy", 0, <<>>, rawName, elems, names)

\* struct TestContract.User { uint256 id; address wallet; bool active; }
UserTuple ==
  TupleType(<<"T", "e", "s", "t", "C", "o", "n", "t", "r", "a", "c", "t", "U", "s", "e", "r">>, <<Uint256, AddressType, BoolType>>,
            <<<<"i", "d">>, <<"w", "a", "l", "l", "e", "t">>, <<"a", "c", "t", "i", "v", "e">>>>)

\* struct Vault.User { uint256 id; }, named as the compiler names it
OtherUserTuple == TupleType(<<"s", "t", "r", "u", "c", "t", " ", "V", "a", "u", "l", "t", ".", "U", "s", "e", "r">>, <<Uint256>>, <<<<"i", "d">>>>)

\* struct Lib.Pair { uint256 amount; address owner; }
PairTuple == TupleType(<<"L", "i", "b", "P", "a", "i", "r">>, <<Uint256, AddressType>>, <<<<"a", "m", "o", "u", "n", "t">>, <<"o", "w", "n", "e", "r">>>>)

\* struct MyContract.Company { string name; User owner; User[] staff; }
CompanyTuple ==
  TupleType(<<"M", "y", "C", "o", "n", "t", "r", "a", "c", "t", "C", "o", "m", "p", "a", "n", "y">>,
            <<Elementary("StringTy", 0), UserTuple, SliceType(UserTuple)>>,
            <<<<"n", "a", "m", "e">>, <<"o", "w", "n", "e", "r">>, <<"s", "t", "a", "f", "f">>>>)

\* struct MasterChef.UserInfo { uint256 amount; uint256 rewardDebt; }
UserInfoTuple ==
  TupleType(<<"M", "a", "s", "t", "e", "r", "C", "h", "e", "f", "U", "s", "e", "r", "I", "n", "f", "o">>, <<Uint256, Uint256>>, <<<<"a", "m", "o", "u", "n", "t">>, <<"r", "e", "w", "a", "r", "d", "D", "e", "b", "t">>>>)

\* struct MasterChef.PoolInfo { address lpToken; uint256 allocPoint; }
PoolInfoTuple ==
  TupleType(<<"M", "a", "s", "t", "e", "r", "C", "h", "e", "f", "P", "o", "o", "l", "I", "n", "f", "o">>, <<AddressType, Uint256>>, <<<<"l", "p", "T", "o", "k", "e", "n">>, <<"a", "l", "l", "o", "c", "P", "o", "i", "n", "t">>>>)

\* struct Lib.Hook { uint256 id; function () external cb; }
HookTuple ==
  TupleType(<<"L", "i", "b", "H", "o", "o", "k">>, <<Uint256, Elementary("FunctionTy", 24)>>, <<<<"i", "d">>, <<"c", "b">>>>)

\* tuples whose raw name leaves no struct name
NamelessTuples ==
  {TupleType(rawName, <<Uint256, BoolType>>, <<<<>>, <<"o", "k">>>>) :
     rawName \in {<<>>, <<"s", "t", "r", "u", "c", "t", " ">>, <<"s", "t", "r", "u", "c", "t", " ", "A", ".">>}}

RECURSIVE TypeString(_)
\* abi.Type.String(): the canonical type of a signature
TypeString(t) ==
  CASE t.T = "UintTy" -> <<"u", "i", "n", "t">> \o Itoa(t.Size)
    [] t.T = "IntTy" -> <<"i", "n", "t">> \o Itoa(t.Size)
    [] t.T = "BoolTy" -> <<"b", "o", "o", "l">>
    [] t.T = "AddressTy" -> <<"a", "d", "d", "r", "e", "s", "s">>
    [] t.T = "StringTy" -> <<"s", "t", "r", "i", "n", "g">>
    [] t.T = "BytesTy" -> <<"b", "y", "t", "e", "s">>
    [] t.T = "FixedBytesTy" -> <<"b", "y", "t", "e", "s">> \o Itoa(t.Size)
    [] t.T = "SliceTy" -> TypeString(t.Elem[1]) \o <<"[", "]">>
    [] t.T = "ArrayTy" -> TypeString(t.Elem[1]) \o <<"[">> \o Itoa(t.Size) \o <<"]">>
    [] t.T = "TupleTy" ->
         <<"(">> \o Join([i \in DOMAIN t.TupleElems |-> TypeString(t.TupleElems[i])], <<",">>) \o <<")">>
    [] OTHER -> <<"f", "u", "n", "c", "t", "i", "o", "n">>

\* abi.Argument, not indexed
Arg(name, type) == [Name |-> name, Type |-> type, Indexed |-> FALSE]

\* an indexed abi.Argument of an event
IndexedArg(name, type) == [Name |-> name, Type |-> type, Indexed |-> TRUE]

\* the signature of a name and its arguments
SigOf(name, inputs) ==
  name \o <<"(">> \o Join([i \in DOMAIN inputs |-> TypeString(inputs[i].Type)], <<",">>) \o <<")">>

\* abi.Method: Name is the name the contract declares, which overloads share
AbiMethod(name, inputs, outputs) ==
  [Name |-> name, Sig |-> SigOf(name, inputs), Inputs |-> inputs, Outputs |-> outputs]

\* abi.Event and abi.Error
AbiEvent(name, inputs) == [Name |-> name, Sig |-> SigOf(name, inputs), Inputs |-> inputs]

\* a method, or an error, and the eight hexadecimal digits solc lists for its
\* signature
Listed(callable, selector) == [callable |-> callable, selector |-> selector]

\* the methods contracts are made of: overloads that differ in an argument,
\* in the length of a fixed array, behind a tuple and in a long list, and
\* methods that use a struct or a type the parser does not support
ListedMethods ==
  {Listed(AbiMethod(<<"f", "o", "o">>, <<>>, <<>>), <<"c", "2", "9", "8", "5", "5", "7", "8">>),
   Listed(AbiMethod(<<"f", "o", "o">>, <<Arg(<<"a", "m", "o", "u", "n", "t">>, Uint256)>>, <<>>), <<"2", "f", "b", "e", "b", "d", "3", "8">>),
   Listed(AbiMethod(<<"f">>, <<Arg(<<"x", "s">>, ArrayType(Uint256, 2))>>, <<>>), <<"a", "1", "b", "2", "c", "3", "d", "4">>),
   Listed(AbiMethod(<<"f">>, <<Arg(<<"x", "s">>, ArrayType(Uint256, 3))>>, <<>>), <<"0", "b", "a", "d", "c", "a", "f", "e">>),
   Listed(AbiMethod(<<"g">>, <<Arg(<<"p">>, PairTuple), Arg(<<"o", "k">>, BoolType)>>, <<>>), <<"5", "e", "e", "d", "5", "e", "e", "d">>),
   Listed(AbiMethod(<<"g">>, <<Arg(<<"p">>, PairTuple), Arg(<<"n">>, Elementary("UintTy", 8))>>, <<>>),
          <<"d", "e", "a", "d", "b", "e", "e", "f">>),
   Listed(AbiMethod(<<"h">>, <<Arg(<<"a">>, SliceType(Uint256)), Arg(<<"b">>, SliceType(AddressType)),
                           Arg(<<"c">>, BoolType), Arg(<<"d">>, Elementary("StringTy", 0)),
                           Arg(<<"e">>, Elementary("FixedBytesTy", 32)),
                           Arg(<<>>, Elementary("UintTy", 64))>>, <<>>), <<"1", "2", "3", "4", "5", "6", "7", "8">>),
   Listed(AbiMethod(<<"h">>, <<Arg(<<"a">>, Uint256)>>, <<Arg(<<>>, Uint256), Arg(<<>>, BoolType)>>),
          <<"9", "a", "b", "c", "d", "e", "f", "0">>),
   Listed(AbiMethod(<<"t", "r", "a", "n", "s", "f", "e", "r">>, <<Arg(<<"t", "o">>, AddressType), Arg(<<"a", "m", "o", "u", "n", "t">>, Uint256)>>,
                    <<Arg(<<>>, BoolType)>>), <<"a", "9", "0", "5", "9", "c", "b", "b">>),
   Listed(AbiMethod(<<"p", "r", "o", "c", "e", "s", "s", "U", "s", "e", "r", "s">>, <<Arg(<<"u", "s", "e", "r", "s">>, SliceType(UserTuple))>>,
                    <<Arg(<<>>, SliceType(UserTuple))>>), <<"0", "f", "1", "e", "2", "d", "3", "c">>),
   Listed(AbiMethod(<<"c", "a", "l", "l", "b", "a", "c", "k">>, <<Arg(<<"f", "n">>, Elementary("FunctionTy", 24))>>, <<>>),
          <<"7", "7", "7", "7", "7", "7", "7", "7">>)}

EventPool ==
  {AbiEvent(<<"T", "r", "a", "n", "s", "f", "e", "r">>, <<IndexedArg(<<"f", "r", "o", "m">>, AddressType), IndexedArg(<<"t", "o">>, AddressType),
                          Arg(<<"v", "a", "l", "u", "e">>, Uint256)>>),
   AbiEvent(<<"A", "p", "p", "r", "o", "v", "a", "l">>, <<IndexedArg(<<"o", "w", "n", "e", "r">>, AddressType), Arg(<<"v", "a", "l", "u", "e">>, Uint256)>>),
   AbiEvent(<<"H", "i", "r", "e", "d">>, <<Arg(<<"c", "o", "m", "p", "a", "n", "y">>, CompanyTuple)>>)}

\* the custom errors, with the first four bytes of the hashes of their
\* signatures
ListedErrors ==
  {Listed(AbiEvent(<<"I", "n", "s", "u", "f", "f", "i", "c", "i", "e", "n", "t", "B", "a", "l", "a", "n", "c", "e">>, <<Arg(<<"a", "v", "a", "i", "l", "a", "b", "l", "e">>, Uint256)>>), <<"c", "f", "4", "7", "9", "1", "8", "1">>),
   Listed(AbiEvent(<<"U", "n", "a", "u", "t", "h", "o", "r", "i", "z", "e", "d">>, <<>>), <<"8", "2", "b", "4", "2", "9", "0", "0">>)}

\* evm.methodIdentifiers for the listed callables
Identifiers(listed) ==
  [sig \in {l.callable.Sig : l \in listed} |->
     (CHOOSE l \in listed : l.callable.Sig = sig).selector]

\* the most methods of a contract, and the most contracts of a result
MaxMethods == 2

MaxContracts == 2

\* types.ContractResult with its source file and its name; the methods, the
\* events and the errors of the parsed ABI are sets here, as the maps of
\* abi.ABI have no order
Entry(sourceFile, name, valid, methods, events, errors, constructor, methodIds) ==
  [SourceFile |-> sourceFile, Name |-> name,
   Result |-> [ABI |-> [valid |-> valid, Methods |-> methods, Events |-> events,
                        Errors |-> errors, Constructor |-> constructor],
               EVM |-> [MethodIdentifiers |-> methodIds]]]

NoConstructor == [Type |-> "", Sig |-> <<>>, Inputs |-> <<>>]

TokenConstructor ==
  [Type |-> "constructor", Sig |-> <<>>,
   Inputs |-> <<Arg(<<"s", "u", "p", "p", "l", "y">>, Uint256), Arg(<<"o", "w", "n", "e", "r">>, AddressType)>>]

Callables(listed) == {l.callable : l \in listed}

MethodSets == {ms \in SUBSET ListedMethods : Cardinality(ms) \in 1..MaxMethods}

\* one contract with every choice of methods, all of them listed
OverloadResults ==
  {{Entry(<<"a", ".", "s", "o", "l">>, <<"T", "o", "k", "e", "n">>, TRUE, Callables(ms), {}, {}, NoConstructor, Identifiers(ms))} :
     ms \in MethodSets}

\* one contract with a method that is not listed, or listed with no digits
UnlistedResults ==
  UNION {UNION {{{Entry(<<"a", ".", "s", "o", "l">>, <<"T", "o", "k", "e", "n">>, TRUE, Callables(ms), {}, {}, NoConstructor,
                        Identifiers(ms \ {l}))},
                 {Entry(<<"a", ".", "s", "o", "l">>, <<"T", "o", "k", "e", "n">>, TRUE, Callables(ms), {}, {}, NoConstructor,
                        Identifiers((ms \ {l}) \cup {Listed(l.callable, <<>>)}))}} :
                  l \in ms} : ms \in MethodSets}

TransferMethod == CHOOSE l \in ListedMethods : l.callable.Name = <<"t", "r", "a", "n", "s", "f", "e", "r">>

\* one contract with every choice of events and errors, the errors listed
\* or not
EventResults ==
  {{Entry(<<"a", ".", "s", "o", "l">>, <<"T", "o", "k", "e", "n">>, TRUE, {TransferMethod.callable}, events, Callables(errors),
          constructor, Identifiers({TransferMethod} \cup listed))} :
     events \in SUBSET EventPool, errors \in SUBSET ListedErrors,
     listed \in SUBSET ListedErrors, constructor \in {NoConstructor, TokenConstructor}}

\* a contract with one method and one event
Simple(sourceFile, name) ==
  Entry(sourceFile, name, TRUE, {TransferMethod.callable},
        {e \in EventPool : e.Name = <<"T", "r", "a", "n", "s", "f", "e", "r">>}, {}, NoConstructor,
        Identifiers({TransferMethod}))

\* contracts of one or two source files, some with the same package name,
\* one with a method that is not listed, one whose ABI abi.JSON rejects
BatchContracts ==
  {Simple(<<"a", ".", "s", "o", "l">>, <<"T", "o", "k", "e", "n">>), Simple(<<"a", ".", "s", "o", "l">>, <<"M", "y", "T", "o", "k", "e", "n">>), Simple(<<"a", ".", "s", "o", "l">>, <<"M", "y", "_", "T", "o", "k", "e", "n">>),
   Simple(<<"b", ".", "s", "o", "l">>, <<"M", "y", "T", "o", "k", "e", "n">>), Simple(<<"b", ".", "s", "o", "l">>, <<"V", "a", "u", "l", "t">>),
   Entry(<<"b", ".", "s", "o", "l">>, <<"R", "e", "g", "i", "s", "t", "r", "y">>, TRUE, {TransferMethod.callable}, {}, {}, NoConstructor,
         Identifiers({})),
   Entry(<<"a", ".", "s", "o", "l">>, <<"B", "r", "o", "k", "e", "n">>, FALSE, {}, {}, {}, NoConstructor, Identifiers({}))}

BatchResults == {cs \in SUBSET BatchContracts : Cardinality(cs) \in 2..MaxContracts}

\* methods, an event, an error and a constructor that take structs: two
\* structs of one contract whose names end alike, and a struct with a field
\* of a type the parser does not support
StructMethods ==
  {Listed(AbiMethod(<<"d", "e", "p", "o", "s", "i", "t">>, <<Arg(<<"i", "n", "f", "o">>, UserInfoTuple)>>, <<>>), <<"1", "1", "1", "1", "1", "1", "1", "1">>),
   Listed(AbiMethod(<<"a", "d", "d">>, <<Arg(<<"p", "o", "o", "l">>, PoolInfoTuple)>>, <<>>), <<"2", "2", "2", "2", "2", "2", "2", "2">>),
   Listed(AbiMethod(<<"r", "e", "g", "i", "s", "t", "e", "r">>, <<Arg(<<"h", "o", "o", "k", "s">>, SliceType(HookTuple))>>, <<>>), <<"3", "3", "3", "3", "3", "3", "3", "3">>)}

StructEvents == {AbiEvent(<<"H", "o", "o", "k", "e", "d">>, <<Arg(<<"h", "o", "o", "k">>, HookTuple)>>)}

StructErrors == {Listed(AbiEvent(<<"R", "e", "j", "e", "c", "t", "e", "d">>, <<Arg(<<"u", "s", "e", "r">>, UserTuple)>>), <<"4", "4", "4", "4", "4", "4", "4", "4">>)}

PairConstructor ==
  [Type |-> "constructor", Sig |-> <<>>, Inputs |-> <<Arg(<<"c", "o", "n", "f", "i", "g">>, PairTuple)>>]

\* one contract with every choice of them
StructResults ==
  {{Entry(<<"a", ".", "s", "o", "l">>, <<"T", "o", "k", "e", "n">>, TRUE, Callables(ms) \cup {TransferMethod.callable}, events,
          Callables(errors), constructor,
          Identifiers(ms \cup {TransferMethod} \cup errors))} :
     ms \in SUBSET StructMethods, events \in SUBSET StructEvents,
     errors \in SUBSET StructErrors, constructor \in {NoConstructor, PairConstructor}}

\* the compile results handed to ResultWithVersion
CompileResults ==
  OverloadResults \cup UnlistedResults \cup EventResults \cup BatchResults \cup StructResults

\* the orders in which a range over a map of these elements can take them
Orderings(S) ==
  {o \in [1..Cardinality(S) -> S] : \A i, j \in 1..Cardinality(S) : i # j => o[i] # o[j]}

\* a contract with the maps of its ABI in the orders ranges over them take
Ranged(entry) ==
  {[entry EXCEPT !.Result.ABI.Methods = methods, !.Result.ABI.Events = events,
                 !.Result.ABI.Errors = errors] :
     methods \in Orderings(entry.Result.ABI.Methods),
     events \in Orderings(entry.Result.ABI.Events),
     errors \in Orderings(entry.Result.ABI.Errors)}

\* the orders of the contracts of a result that take the source files one
\* after the other
FileOrderings(result) ==
  {o \in Orderings(result) :
     \A i, j, k \in DOMAIN o :
       (i < j /\ j < k /\ o[i].SourceFile = o[k].SourceFile)
         => o[j].SourceFile = o[i].SourceFile}

\* result.Contracts in every order the ranges of ResultWithVersion and of
\* the functions it calls can take
Ranges(result) ==
  UNION {{[i \in DOMAIN o |-> pick[o[i]]] :
            pick \in {p \in [result -> UNION {Ranged(e) : e \in result}] :
                        \A e \in result : p[e] \in Ranged(e)}} :
           o \in FileOrderings(result)}

\* the most contracts parsed side by side
MaxWorkers == 2

OpenMethod == Listed(AbiMethod(<<"o", "p", "e", "n">>, <<Arg(<<"u", "s", "e", "r">>, UserTuple)>>, <<>>), <<"5", "5", "5", "5", "5", "5", "5", "5">>)

CloseMethod == Listed(AbiMethod(<<"c", "l", "o", "s", "e">>, <<Arg(<<"u", "s", "e", "r">>, OtherUserTuple)>>, <<>>), <<"6", "6", "6", "6", "6", "6", "6", "6">>)

\* the contracts the tasks parse: two whose struct User differs, one of
\* them with a second struct in a method and a third in an event, a
\* contract with no struct, one with a method that is not listed and one
\* whose ABI abi.JSON rejects
TaskContracts ==
  {Entry(<<"a", ".", "s", "o", "l">>, <<"B", "a", "n", "k">>, TRUE,
         Callables({OpenMethod} \cup {l \in StructMethods : l.callable.Name = <<"a", "d", "d">>}),
         StructEvents, {}, NoConstructor,
         Identifiers({OpenMethod} \cup {l \in StructMethods : l.callable.Name = <<"a", "d", "d">>})),
   Entry(<<"b", ".", "s", "o", "l">>, <<"V", "a", "u", "l", "t">>, TRUE, Callables({CloseMethod}), {}, {}, NoConstructor,
         Identifiers({CloseMethod})),
   Simple(<<"a", ".", "s", "o", "l">>, <<"T", "o", "k", "e", "n">>),
   Entry(<<"b", ".", "s", "o", "l">>, <<"R", "e", "g", "i", "s", "t", "r", "y">>, TRUE, Callables({CloseMethod}), {}, {}, NoConstructor,
         Identifiers({})),
   Entry(<<"a", ".", "s", "o", "l">>, <<"B", "r", "o", "k", "e", "n">>, FALSE, {}, {}, {}, NoConstructor, Identifiers({}))}

\* the contracts of the tasks, each with its maps in the order the ranges
\* of its task take them
TaskLists ==
  UNION {[1..n -> UNION {Ranged(e) : e \in TaskContracts}] : n \in 1..MaxWorkers}

\* flags.Output: --out left empty, or a directory
Outputs == {<<>>, <<"o", "u", "t">>}

\* combinedJSON.Contracts of a compile result: each contract under the key
\* "file.sol:ContractName"
Keyed(result) ==
  {[key |-> e.SourceFile \o <<":">> \o e.Name, Result |-> e.Result] : e \in result}

\* the same with one key that lacks the separator
Unkeyed(result) ==
  {Keyed(result \ {e}) \cup {[key |-> e.Name, Result |-> e.Result]} : e \in result}

\* what stdin can hold: nothing, bytes that are no JSON, a combined JSON
\* with no contract, and the combined JSON of one contract or of a batch
Stdins ==
  {[data |-> "empty", contracts |-> {}], [data |-> "invalid", contracts |-> {}],
   [data |-> "json", contracts |-> {}]}
    \cup {[data |-> "json", contracts |-> cs] :
            cs \in UNION {{Keyed(r)} \cup Unkeyed(r) :
                            r \in BatchResults \cup {{c} : c \in BatchContracts}}}

\* the arguments of generateOverloadName: the base names, the parameter
\* types of the signature, and selectors with and without the 0x marker
BaseNames == {<<"f", "o", "o">>, <<"t", "r", "a", "n", "s", "f", "e", "r">>}

ParamTypes ==
  {<<"u", "i", "n", "t", "2", "5", "6">>, <<"a", "d", "d", "r", "e", "s", "s">>, <<"b", "o", "o", "l">>, <<"s", "t", "r", "i", "n", "g">>, <<"b", "y", "t", "e", "s">>, <<"b", "y", "t", "e", "s", "3", "2">>, <<"i", "n", "t", "1", "2", "8">>, <<"u", "i", "n", "t", "8">>,
   <<"u", "i", "n", "t", "2", "5", "6", "[", "]">>, <<"a", "d", "d", "r", "e", "s", "s", "[", "1", "0", "]">>, <<"c", "u", "s", "t", "o", "m", "T", "y", "p", "e">>, <<"u", "i", "n", "t", "2", "5", "6", "[", "]", "[", "2", "]">>, <<"(", "u", "i", "n", "t", "2", "5", "6", ",", "a", "d", "d", "r", "e", "s", "s", ")">>}

MaxParams == 3

TypeLists == UNION {[1..n -> ParamTypes] : n \in 0..MaxParams}

SelectorArgs == {<<"0", "x", "a", "9", "0", "5", "9", "c", "b", "b">>, <<"a", "9", "0", "5", "9", "c", "b", "b">>}

\* the raw names handed to extractStructName: the names of the tests, names
\* with and without the prefix, a dot, a capital, an underscore
RawNames ==
  {<<>>, <<"T", "e", "s", "t", "C", "o", "n", "t", "r", "a", "c", "t", "U", "s", "e", "r">>, <<"s", "t", "r", "u", "c", "t", " ", "T", "e", "s", "t", "C", "o", "n", "t", "r", "a", "c", "t", ".", "U", "s", "e", "r">>, <<"M", "y", "C", "o", "n", "t", "r", "a", "c", "t", "C", "o", "m", "p", "a", "n", "y">>,
   <<"s", "t", "r", "u", "c", "t", " ", "M", "y", "C", "o", "n", "t", "r", "a", "c", "t", ".", "C", "o", "m", "p", "a", "n", "y">>, <<"T", "e", "s", "t", "S", "t", "r", "u", "c", "t", "A", "r", "r", "a", "y", "U", "s", "e", "r">>, <<"s", "t", "r", "u", "c", "t", " ">>, <<"s", "t", "r", "u", "c", "t", " ", "A", ".">>,
   <<"U", "s", "e", "r">>, <<"u", "s", "e", "r">>, <<"A", "B", "C">>, <<"I", "E", "R", "C", "2", "0", "D", "a", "t", "a">>, <<"s", "t", "r", "u", "c", "t", " ", "A", ".", "B", ".", "d", "a", "t", "a">>, <<"m", "y", "S", "t", "r", "u", "c", "t">>,
   <<"s", "t", "r", "u", "c", "t", " ", "L", "i", "b", ".", "_", "D", "a", "t", "a">>, <<"s", "t", "r", "u", "c", "t", " ", "p", "o", "i", "n", "t">>, <<"a", ".", "b">>, <<"M", "a", "s", "t", "e", "r", "C", "h", "e", "f", "U", "s", "e", "r", "I", "n", "f", "o">>}

\* the types handed to mapSolidityToGoTypeWithRegistry
TypePool ==
  {Uint256, AddressType, BoolType, Elementary("UintTy", 8), Elementary("IntTy", 64),
   Elementary("FixedBytesTy", 32), Elementary("FunctionTy", 24),
   UserTuple, OtherUserTuple, PairTuple, CompanyTuple,
   UserInfoTuple, PoolInfoTuple, HookTuple,
   SliceType(UserTuple), ArrayType(OtherUserTuple, 2), SliceType(Uint256)}
    \cup NamelessTuples

(***************************************************************************)
(* The state machine: a caller encodes a value or receives a buffer, then *)
(* hands the buffer to one decoder                                         *)
(***************************************************************************)
\* the arguments of a decoder call beside the data: the offset, the size
\* (decodeFixedBytes), the element decoder (decodeArray), the parameters
\* the decoder was generated for, whether the runtime can serve a large
\* allocation, and the Selector of the PackableError of an error decoder
NoArg ==
  [offset |-> 0, size |-> 0, elemDecoder |-> "", params |-> <<>>, mem |-> FALSE,
   selector |-> <<>>]

\* the arguments of a call of the parser (rawName is the argument of
\* extractStructName): the compile result of
\* ResultWithVersion; the base name, the parameter types the signature is
\* made of, the signature and the selector of generateOverloadName; the type
\* of mapSolidityToGoTypeWithRegistry and the registry before the call
NoCall ==
  [result |-> {}, baseName |-> <<>>, types |-> <<>>, signature |-> <<>>,
   selector |-> <<>>, abiType |-> Elementary("", 0), before |-> newStructRegistry,
   rawName |-> <<>>]

\* what a call of the parser returns: the contracts, the method name or the
\* type, and the error
NoRet == [contracts |-> <<>>, name |-> <<>>, goType |-> NoGoType, err |-> ""]

Init ==
  /\ pc = "idle"
  /\ src = ""
  /\ input = Nil
  /\ wire = <<>>
  /\ op = ""
  /\ arg = NoArg
  /\ out = Ret(Nil, "")
  /\ reg = newStructRegistry
  /\ call = NoCall
  /\ ret = NoRet
  /\ run = NoRun
  /\ tasks = NoTasks

Encoded(name, val, r) ==
  /\ pc' = IF r.err = "" THEN "encoded" ELSE "failed"
  /\ src' = name
  /\ input' = val
  /\ wire' = IF r.err = "" THEN r.val ELSE <<>>
  /\ op' = ""
  /\ arg' = NoArg
  /\ out' = r
  /\ UNCHANGED <<reg, call, ret, run, tasks>>

EncodeInt256 ==
  /\ pc = "idle"
  /\ \/ \E x \in BigInts :
          Encoded("encodeInt256", Iface("*big.Int", x),
                  encodeInt256(Iface("*big.Int", x)))
     \/ \E t \in {"int64", "int", "uint64"}, x \in Int64s :
          Encoded("encodeInt256", Iface(t, x), encodeInt256(Iface(t, x)))

EncodeUint256 ==
  /\ pc = "idle"
  /\ \/ \E x \in BigInts :
          Encoded("encodeUint256", Iface("*big.Int", x),
                  encodeUint256(Iface("*big.Int", x)))
     \/ \E t \in {"int64", "int", "uint64", "string"}, x \in Int64s :
          Encoded("encodeUint256", Iface(t, x), encodeUint256(Iface(t, x)))

EncodeAddress ==
  /\ pc = "idle"
  /\ \E addr \in Addresses : Encoded("encodeAddress", addr, encodeAddress(addr))

EncodeBool ==
  /\ pc = "idle"
  /\ \E val \in BOOLEAN : Encoded("encodeBool", val, encodeBool(val))

EncodeBytes ==
  /\ pc = "idle"
  /\ \E data \in ByteStrings : Encoded("encodeBytes", data, encodeBytes(data))

EncodeString ==
  /\ pc = "idle"
  /\ \E str \in ByteStrings : Encoded("encodeString", str, encodeString(str))

\* a buffer that comes from the chain, not from this codec
Receive ==
  /\ pc = "idle"
  /\ \E data \in Buffers :
       /\ pc' = "received"
       /\ src' = "raw"
       /\ input' = Nil
       /\ wire' = data
       /\ op' = ""
       /\ arg' = NoArg
       /\ out' = Ret(Nil, "")
       /\ UNCHANGED <<reg, call, ret, run, tasks>>

Decoded(name, a, r) ==
  /\ pc \in {"encoded", "received"}
  /\ pc' = "decoded"
  /\ op' = name
  /\ arg' = a
  /\ out' = r
  /\ UNCHANGED <<src, input, wire, reg, call, ret, run, tasks>>

DecodeUint256 == Decoded("decodeUint256", NoArg, decodeUint256(wire))

DecodeInt256 == Decoded("decodeInt256", NoArg, decodeInt256(wire))

DecodeAddress == Decoded("decodeAddress", NoArg, decodeAddress(wire))

DecodeBool == Decoded("decodeBool", NoArg, decodeBool(wire))

DecodeHash == Decoded("decodeHash", NoArg, decodeHash(wire))

DecodeFixedBytes ==
  \E size \in {1, 20, 32, 33} :
    Decoded("decodeFixedBytes", [NoArg EXCEPT !.size = size],
            decodeFixedBytes(wire, size))

DecodeBytes1 == Decoded("decodeBytes1", NoArg, decodeBytes1(wire))

DecodeBytes32 == Decoded("decodeBytes32", NoArg, decodeBytes32(wire))

DecodeUint8 == Decoded("decodeUint8", NoArg, decodeUint8(wire))

DecodeUint16 == Decoded("decodeUint16", NoArg, decodeUint16(wire))

DecodeUint32 == Decoded("decodeUint32", NoArg, decodeUint32(wire))

DecodeUint64 == Decoded("decodeUint64", NoArg, decodeUint64(wire))

DecodeInt64 == Decoded("decodeInt64", NoArg, decodeInt64(wire))

DecodeBytes ==
  \E offset \in Offsets :
    Decoded("decodeBytes", [NoArg EXCEPT !.offset = offset], decodeBytes(wire, offset))

DecodeString ==
  \E offset \in Offsets :
    Decoded("decodeString", [NoArg EXCEPT !.offset = offset], decodeString(wire, offset))

DecodeArray ==
  \E offset \in Offsets, elemDecoder \in ElemDecoders, mem \in BOOLEAN :
    Decoded("decodeArray",
            [NoArg EXCEPT !.offset = offset, !.elemDecoder = elemDecoder, !.mem = mem],
            decodeArray(wire, offset, elemDecoder, mem))

\* the decoders below are handed data that comes from the chain
MethodDecode ==
  /\ pc = "received"
  /\ \E outputs \in SingleOutputs \cup MultiOutputs, mem \in BOOLEAN :
       Decoded("Method.Decode", [NoArg EXCEPT !.params = outputs, !.mem = mem],
               methodDecodeImpl(Structs, outputs, wire, mem))

EventDecode ==
  /\ pc = "received"
  /\ \E inputs \in EventInputs, mem \in BOOLEAN :
       Decoded("Event.Decode", [NoArg EXCEPT !.params = inputs, !.mem = mem],
               eventDecodeImpl(inputs, wire, mem))

ErrorDecode ==
  /\ pc = "received"
  /\ \E inputs \in ErrorInputs, mem \in BOOLEAN, selector \in ErrorSelectors :
       Decoded("Error.Decode",
               [NoArg EXCEPT !.params = inputs, !.mem = mem, !.selector = selector],
               errorDecodeImpl(inputs, wire, mem))

MethodMustDecode ==
  /\ pc = "received"
  /\ \E outputs \in SingleOutputs \cup MultiOutputs, mem \in BOOLEAN :
       Decoded("Method.MustDecode", [NoArg EXCEPT !.params = outputs, !.mem = mem],
               MustDecode(methodDecodeImpl(Structs, outputs, wire, mem)))

EventMustDecode ==
  /\ pc = "received"
  /\ \E inputs \in EventInputs, mem \in BOOLEAN :
       Decoded("Event.MustDecode", [NoArg EXCEPT !.params = inputs, !.mem = mem],
               MustDecode(eventDecodeImpl(inputs, wire, mem)))

ErrorMustDecode ==
  /\ pc = "received"
  /\ \E inputs \in ErrorInputs, mem \in BOOLEAN, selector \in ErrorSelectors :
       Decoded("Error.MustDecode",
               [NoArg EXCEPT !.params = inputs, !.mem = mem, !.selector = selector],
               MustDecode(errorDecodeImpl(inputs, wire, mem)))

\* a call of the parser and what it returns
Called(name, c, r) ==
  /\ pc' = "parsed"
  /\ op' = name
  /\ call' = c
  /\ ret' = r
  /\ UNCHANGED <<src, input, wire, arg, out, run, tasks>>

\* the compile result of one run of solc, with the maps in the order the
\* ranges take them
CallResultWithVersion ==
  /\ pc = "idle"
  /\ \E result \in CompileResults :
       \E contracts \in Ranges(result) :
         /\ Called("ResultWithVersion", [NoCall EXCEPT !.result = result],
                   [NoRet EXCEPT !.contracts = ResultWithVersion(contracts).contracts,
                                 !.err = ResultWithVersion(contracts).err])
         /\ UNCHANGED reg

CallGenerateOverloadName ==
  /\ pc = "idle"
  /\ \E baseName \in BaseNames, types \in TypeLists, selector \in SelectorArgs :
       /\ Called("generateOverloadName",
                 [NoCall EXCEPT !.baseName = baseName, !.types = types,
                                !.signature = baseName \o <<"(">> \o Join(types, <<",">>) \o <<")">>,
                                !.selector = selector],
                 [NoRet EXCEPT !.name =
                    generateOverloadName(baseName,
                                         baseName \o <<"(">> \o Join(types, <<",">>) \o <<")">>,
                                         selector)])
       /\ UNCHANGED reg

CallExtractStructName ==
  /\ pc = "idle"
  /\ \E rawName \in RawNames :
       Called("extractStructName", [NoCall EXCEPT !.rawName = rawName],
              [NoRet EXCEPT !.name = extractStructName(rawName)])
  /\ UNCHANGED reg

\* one more type resolved against the registry
Resolved(abiType, m) ==
  /\ pc' = "parsed"
  /\ op' = "mapSolidityToGoTypeWithRegistry"
  /\ call' = [NoCall EXCEPT !.abiType = abiType, !.before = reg]
  /\ ret' = [NoRet EXCEPT !.goType = m.type, !.err = m.err]
  /\ reg' = m.registry
  /\ UNCHANGED <<src, input, wire, arg, out, run, tasks>>

CallMapSolidityToGoTypeWithRegistry ==
  /\ \/ pc = "idle"
     \/ pc = "parsed" /\ op = "mapSolidityToGoTypeWithRegistry"
  /\ \E abiType \in TypePool :
       Resolved(abiType, mapSolidityToGoTypeWithRegistry(abiType, reg))

\* a step of runProcessJSON
Ran(r) ==
  /\ pc' = IF r.step = "returned" THEN "returned" ELSE "processing"
  /\ run' = r
  /\ UNCHANGED <<src, input, wire, op, arg, out, reg, call, ret, tasks>>

ProcessStart ==
  /\ pc = "idle"
  /\ \E output \in Outputs, stdin \in Stdins, made \in BOOLEAN :
       Ran(processStart(output, stdin, made))

ProcessRead ==
  /\ pc = "processing"
  /\ run.step = "read"
  /\ \E read \in BOOLEAN : Ran(processRead(run, read))

\* parse.ResultWithVersion with the maps of the standard result in the
\* order the ranges take them
ProcessParse ==
  /\ pc = "processing"
  /\ run.step = "parse"
  /\ \E contracts \in Ranges(run.standard) :
       Ran(processParsed(run, ResultWithVersion(contracts)))

ProcessGenerate ==
  /\ pc = "processing"
  /\ run.step = "generate"
  /\ \E made \in BOOLEAN : Ran(generateStart(run, made))

ProcessPackage ==
  /\ pc = "processing"
  /\ run.step = "package"
  /\ \E made, rendered, written \in BOOLEAN :
       Ran(generateContractPackage(run, made, rendered, written))

\* a step of one of the tasks; the tasks are joined when each has returned
Stepped(ts) ==
  /\ pc' = IF \A k \in DOMAIN ts.workers : ts.workers[k].step = "done"
           THEN "joined" ELSE "resolving"
  /\ tasks' = ts
  /\ UNCHANGED <<src, input, wire, op, arg, out, reg, call, ret, run>>

\* the tasks start, each with a registry of its own
TasksStart ==
  /\ pc = "idle"
  /\ \E entries \in TaskLists :
       Stepped([heap |-> [k \in DOMAIN entries |-> newStructRegistry],
                workers |-> [k \in DOMAIN entries |-> Worker(entries[k])]])

TaskParseMethods ==
  /\ pc = "resolving"
  /\ \E k \in DOMAIN tasks.workers :
       /\ tasks.workers[k].step = "methods"
       /\ Stepped(parseContractMethods(tasks, k))

TaskParseEvents ==
  /\ pc = "resolving"
  /\ \E k \in DOMAIN tasks.workers :
       /\ tasks.workers[k].step = "events"
       /\ Stepped(parseContractEvents(tasks, k))

TaskFinish ==
  /\ pc = "resolving"
  /\ \E k \in DOMAIN tasks.workers :
       /\ tasks.workers[k].step = "finish"
       /\ Stepped(parseContractFinish(tasks, k))

Reset ==
  /\ pc \in {"decoded", "failed", "parsed", "returned", "joined"}
  /\ pc' = "idle"
  /\ src' = ""
  /\ input' = Nil
  /\ wire' = <<>>
  /\ op' = ""
  /\ arg' = NoArg
  /\ out' = Ret(Nil, "")
  /\ reg' = newStructRegistry
  /\ call' = NoCall
  /\ ret' = NoRet
  /\ run' = NoRun
  /\ tasks' = NoTasks

Next ==
  \/ EncodeInt256
  \/ EncodeUint256
  \/ EncodeAddress
  \/ EncodeBool
  \/ EncodeBytes
  \/ EncodeString
  \/ Receive
  \/ DecodeUint256
  \/ DecodeInt256
  \/ DecodeAddress
  \/ DecodeBool
  \/ DecodeHash
  \/ DecodeFixedBytes
  \/ DecodeBytes1
  \/ DecodeBytes32
  \/ DecodeUint8
  \/ DecodeUint16
  \/ DecodeUint32
  \/ DecodeUint64
  \/ DecodeInt64
  \/ DecodeBytes
  \/ DecodeString
  \/ DecodeArray
  \/ MethodDecode
  \/ EventDecode
  \/ ErrorDecode
  \/ MethodMustDecode
  \/ EventMustDecode
  \/ ErrorMustDecode
  \/ CallResultWithVersion
  \/ CallGenerateOverloadName
  \/ CallExtractStructName
  \/ CallMapSolidityToGoTypeWithRegistry
  \/ ProcessStart
  \/ ProcessRead
  \/ ProcessParse
  \/ ProcessGenerate
  \/ ProcessPackage
  \/ TasksStart
  \/ TaskParseMethods
  \/ TaskParseEvents
  \/ TaskFinish
  \/ Reset

Spec == Init /\ [][Next]_vars

(***************************************************************************)
(* Properties of the codec                                                 *)
(***************************************************************************)
\* -2^255 <= x <= 2^255 - 1
InInt256Range(x) ==
  BitLen(x) <= 255 \/ (x.neg /\ x.abs = <<128>> \o Zeros(WordSize - 1))

\* C1: for every x with -2^255 <= x <= 2^255 - 1, the minimum included,
\* encodeInt256(x) succeeds and decodeInt256 of the result is x.
C1_Int256Symmetry ==
  (src = "encodeInt256" /\ input.t = "*big.Int" /\ InInt256Range(input.v)) =>
    /\ pc # "failed"
    /\ op = "decodeInt256" => (out.err = "" /\ out.val = input.v)

\* C2: for every int64 v, decodeInt64 of the word encodeInt256(v) is v,
\* with no error.
C2_Int64Symmetry ==
  (src = "encodeInt256" /\ input.t = "int64" /\ op = "decodeInt64") =>
    (out.err = "" /\ out.val = input.v)

\* word is the 256-bit sign extension of a value of n bytes
IsSignExtension(word, n) ==
  LET sign == IF word[WordSize - n + 1] >= 128 THEN 255 ELSE 0
  IN  \A i \in 1..(WordSize - n) : word[i] = sign

SignedBytes(name) ==
  CASE name = "int8" -> 1 [] name = "int16" -> 2 [] name = "int32" -> 4
    [] name = "int64" -> 8

\* C3: a 32-byte word decoded as int8, int16, int32 or int64 is an error
\* unless it is the sign extension of a value of that width.
C3_SignedPaddingValidated ==
  (/\ op = "Method.Decode"
   /\ Len(arg.params) = 1
   /\ arg.params[1].Type.TypeName \in {"int8", "int16", "int32", "int64"}
   /\ Len(wire) = WordSize
   /\ ~IsSignExtension(wire, SignedBytes(arg.params[1].Type.TypeName)))
    => out.err # ""

\* length(n) ++ content padded to a multiple of 32 bytes
AbiDynamic(str) ==
  U256(Len(str)) \o str \o Zeros((WordSize - (Len(str) % WordSize)) % WordSize)

\* C4: a string or bytes return value is decoded through the pointer in its
\* head slot: pointer(0x20) ++ length(n) ++ padded content decodes to the n
\* content bytes.
C4_DynamicThroughPointer ==
  (/\ op = "Method.Decode"
   /\ Len(arg.params) = 1
   /\ arg.params[1].Type.TypeName \in {"string", "[]byte"})
    => \A str \in ByteStrings :
         wire = U256(32) \o AbiDynamic(str) =>
           (~out.panic /\ out.err = "" /\ out.val = str)

IsDynamic(type) == type.TypeName \in {"string", "[]byte"} \/ type.IsSlice

\* the parameters whose values are in the data
InData(params) == SelectSeq(params, LAMBDA q : ~q.Indexed)

\* C5: in a list of parameters, the parameter after a dynamic one is read
\* from the next 32-byte head slot.
C5_HeadCursorBySlot ==
  (op \in {"Method.Decode", "Event.Decode", "Error.Decode"}
     /\ Len(arg.params) > 1) =>
    \A k \in 1..(Len(out.reads) - 1) :
      IsDynamic(InData(arg.params)[k].Type) => out.reads[k + 1] = out.reads[k] + 32

\* C6: a struct with a string field is decoded through the pointer in the
\* outer head slot, its string through the offset in the struct's own head,
\* and the field after the string from the next head slot; a struct of
\* static fields is decoded in place.
C6_StructClassification ==
  /\ (op = "Method.Decode" /\ arg.params = <<Out(Prim("Profile"))>>) =>
       \A id \in ValueWords, age \in {0, 30}, str \in SmallStrings :
         wire = U256(32) \o id \o U256(96) \o U256(age) \o AbiDynamic(str) =>
           (~out.panic /\ out.err = "" /\ out.val = <<SetBytes(id), str, <<age>>>>)
  /\ (op = "Method.Decode" /\ arg.params = <<Out(Prim("User"))>> /\ wire = AbiUser(1)) =>
       (~out.panic /\ out.err = ""
          /\ out.val = <<BigOne, Fill(AddressSize, 1), TRUE>>)

\* the L units of unit bytes each, that the length word L at offset
\* announces, are not all in data
Lacks(data, offset, unit) ==
  LET w == Slice(data, offset, offset + WordSize)
  IN  \/ \E i \in 1..(WordSize - 3) : w[i] # 0
      \/ SmallInt(w) * unit > Len(data) - offset - WordSize

\* C7: when the content a length word announces is not in the buffer,
\* decodeBytes and decodeArray return an error and no value, do not panic
\* and have allocated nothing of that length.
C7_LengthBoundsChecked ==
  /\ (op = "decodeBytes" /\ Len(wire) >= arg.offset + WordSize
        /\ Lacks(wire, arg.offset, 1)) =>
       (~out.panic /\ out.alloc = NoAlloc /\ out.err # "" /\ out.val = Nil)
  /\ (op = "decodeArray" /\ Len(wire) >= arg.offset + WordSize
        /\ Lacks(wire, arg.offset, WordSize)) =>
       (~out.panic /\ out.alloc = NoAlloc /\ out.err # "" /\ out.val = Nil)

FixedWidthDecoders ==
  {"decodeUint256", "decodeInt256", "decodeAddress", "decodeBool", "decodeHash",
   "decodeFixedBytes", "decodeBytes1", "decodeBytes32", "decodeUint8",
   "decodeUint16", "decodeUint32", "decodeUint64", "decodeInt64"}

\* the zero value of the result type of a fixed-width decoder
HelperZero(name) ==
  CASE name \in {"decodeUint256", "decodeInt256", "decodeFixedBytes"} -> Nil
    [] name = "decodeAddress" -> Zeros(20)
    [] name = "decodeBool"    -> FALSE
    [] name \in {"decodeHash", "decodeBytes32"} -> Zeros(32)
    [] name \in {"decodeBytes1", "decodeUint8"} -> <<0>>
    [] name = "decodeUint16"  -> <<0, 0>>
    [] name = "decodeUint32"  -> <<0, 0, 0, 0>>
    [] name \in {"decodeUint64", "decodeInt64"} -> <<0, 0, 0, 0, 0, 0, 0, 0>>

\* C8: every fixed-width decoder given fewer than 32 bytes returns an error
\* and the zero value.
C8_InsufficientDataIsError ==
  (pc = "decoded" /\ op \in FixedWidthDecoders /\ Len(wire) < 32) =>
    (~out.panic /\ out.err # "" /\ out.val = HelperZero(op))

C8_Witness ==
  /\ pc = "decoded"
  /\ op = "decodeAddress"
  /\ Len(wire) = 31
  /\ wire[31] = 255
  /\ out.err # ""

UintBytes(name) ==
  CASE name = "decodeUint8" -> 1 [] name = "decodeUint16" -> 2
    [] name = "decodeUint32" -> 4 [] name = "decodeUint64" -> 8

\* C9: decodeUintW on a 32-byte word is an error when one of the leading
\* 32 - W/8 bytes is not zero, and else the trailing W/8 bytes.
C9_UnsignedPaddingValidated ==
  (op \in {"decodeUint8", "decodeUint16", "decodeUint32", "decodeUint64"}
     /\ Len(wire) = 32) =>
    LET n == UintBytes(op)
    IN  IF \E i \in 1..(32 - n) : wire[i] # 0
          THEN out.err # ""
          ELSE out.err = "" /\ out.val = SubSeq(wire, 32 - n + 1, 32)

C9_Witness ==
  /\ op = "decodeUint8"
  /\ wire = <<1>> \o Zeros(31)
  /\ out.err # ""

\* 0 <= x < 2^256
IsUint256(x) == ~x.neg /\ Len(x.abs) <= 32

\* the least k with 32 * k >= n
CeilWords(n) == CHOOSE k \in 0..n : 32 * k >= n /\ 32 * (k - 1) < n

\* C10: decodeUint256(encodeUint256(v)) = v, decodeAddress(encodeAddress(a))
\* = a, decodeBool(encodeBool(b)) = b and decodeBytes(encodeBytes(s), 0) =
\* (s, len(encodeBytes(s))) with len(encodeBytes(s)) = 32 + 32 * ceil(len(s) / 32),
\* for strings too.
C10_RoundTrip ==
  /\ (src = "encodeUint256" /\ input.t = "*big.Int" /\ IsUint256(input.v)) =>
       /\ pc # "failed"
       /\ op = "decodeUint256" => (out.err = "" /\ out.val = input.v)
  /\ (src = "encodeAddress" /\ op = "decodeAddress") =>
       (out.err = "" /\ out.val = input)
  /\ (src = "encodeBool" /\ op = "decodeBool") =>
       (out.err = "" /\ out.val = input)
  /\ (src \in {"encodeBytes", "encodeString"}) =>
       /\ pc # "failed"
       /\ Len(wire) = 32 + 32 * CeilWords(Len(input))
       /\ (op \in {"decodeBytes", "decodeString"} /\ arg.offset = 0) =>
            (~out.panic /\ out.err = "" /\ out.val = input /\ out.next = Len(wire))

C10_Witness ==
  /\ src = "encodeBytes"
  /\ op = "decodeBytes"
  /\ arg.offset = 0
  /\ Len(input) = 33
  /\ out.val = input
  /\ out.next = 96

\* the big-endian representation of a magnitude, on 32 bytes
BigEndian32(abs) == Zeros(WordSize - Len(abs)) \o abs

RECURSIVE PlusOne(_)
\* w + 1 modulo 256^Len(w), on big-endian bytes
PlusOne(w) ==
  IF w = <<>> THEN <<>>
  ELSE IF w[Len(w)] < MaxUint8 THEN SubSeq(w, 1, Len(w) - 1) \o <<w[Len(w)] + 1>>
  ELSE PlusOne(SubSeq(w, 1, Len(w) - 1)) \o <<0>>

\* 2^256 - m for a magnitude 0 < m < 2^256: (2^256 - 1 - m) + 1
TwoTo256Minus(abs) ==
  PlusOne([i \in 1..WordSize |-> MaxUint8 - BigEndian32(abs)[i]])

\* C11: for every x with 0 <= x < 2^255, encodeInt256(x) is the 32-byte
\* big-endian representation of x; for every x with -2^255 < x < 0 it is
\* the 32-byte big-endian representation of 2^256 + x; encodeInt256(-1) is
\* 32 bytes of 0xFF.  An int64 or int argument is its value sign-extended.
C11_SignedEncodingFormula ==
  src = "encodeInt256" =>
    /\ (input.t = "*big.Int" /\ BitLen(input.v) <= 255) =>
         /\ pc # "failed"
         /\ wire = IF input.v.neg THEN TwoTo256Minus(input.v.abs)
                   ELSE BigEndian32(input.v.abs)
    /\ input.t \in {"int64", "int"} =>
         /\ pc # "failed"
         /\ wire = Fill(WordSize - Int64Bytes, IF I64Neg(input.v) THEN MaxUint8 ELSE 0)
                     \o input.v
    /\ input = Iface("*big.Int", BigInt(TRUE, <<1>>)) => wire = Fill(WordSize, MaxUint8)

\* encodeInt256 has encoded -1, and a negative value of 32 significant bytes
C11_Witness ==
  /\ src = "encodeInt256"
  /\ pc = "encoded"
  /\ input.t = "*big.Int"
  /\ input.v.neg
  /\ \/ input.v.abs = <<1>> /\ wire = Fill(WordSize, MaxUint8)
     \/ Len(input.v.abs) = WordSize /\ wire[WordSize] = 1

(***************************************************************************)
(* Properties of the parser                                                *)
(***************************************************************************)
\* the contracts ResultWithVersion returned
Returned == {ret.contracts[k] : k \in DOMAIN ret.contracts}

\* the name a signature starts with
BaseName(sig) == Slice(sig, 0, Index(sig, "("))

\* the contract of the compile result a returned contract was parsed from
EntryOf(c) ==
  CHOOSE e \in call.result : e.SourceFile = c.SourceFile /\ e.Name = c.Name

\* the method of the ABI a returned method was parsed from
AbiMethodOf(c, method) ==
  CHOOSE am \in EntryOf(c).Result.ABI.Methods : am.Sig = method.Signature

\* the method shares its base name with another method of the contract
Overloaded(c, i) ==
  \E j \in DOMAIN c.Methods :
    j # i /\ BaseName(c.Methods[j].Signature) = BaseName(c.Methods[i].Signature)

LastBracket(t) == (CHOOSE k \in DOMAIN t : t[k] = "[" /\ \A j \in (k + 1)..Len(t) : t[j] # "[") - 1

RECURSIVE Normalized(_)
\* the normalized parameter type: T[] is norm(T) + "Array", T[N] is
\* norm(T) + "FixedArray", any other name has its first letter capitalized
Normalized(t) ==
  IF HasSuffix(t, <<"[", "]">>) THEN Normalized(Slice(t, 0, Len(t) - 2)) \o <<"A", "r", "r", "a", "y">>
  ELSE IF t # <<>> /\ t[Len(t)] = "]" /\ Contains(t, "[")
  THEN Normalized(Slice(t, 0, LastBracket(t))) \o <<"F", "i", "x", "e", "d", "A", "r", "r", "a", "y">>
  ELSE IF t = <<>> THEN t
  ELSE ToUpper(<<t[1]>>) \o Tail(t)

\* base + "_NoArgs", or base + "_" + the normalized types joined by "_"
CandidateOf(base, types) ==
  IF types = <<>> THEN base \o <<"_", "N", "o", "A", "r", "g", "s">>
  ELSE base \o <<"_">> \o Join([i \in DOMAIN types |-> Normalized(types[i])], <<"_">>)

\* C13: generateOverloadName(base, signature, selector) is base + "_NoArgs"
\* for a signature without parameters, and otherwise base + "_" + the
\* normalized parameter types joined by "_" whenever that candidate has at
\* most 50 characters.
C13_OverloadNameFormat ==
  (/\ op = "generateOverloadName"
   /\ (call.types = <<>> \/ Len(CandidateOf(call.baseName, call.types)) <= MaxCandidate))
    => ret.name = CandidateOf(call.baseName, call.types)

\* the canonical types of the inputs of a method of the ABI
InputTypes(am) == [i \in DOMAIN am.Inputs |-> TypeString(am.Inputs[i].Type)]

Ascending(keys) == \A i \in 1..(Len(keys) - 1) : ~KeyLess(keys[i + 1], keys[i])

\* C15: for a fixed compile result ResultWithVersion returns the same
\* contracts, with the same methods, events, errors and structs, whatever
\* order the ranges over the maps take, and the methods, the events and
\* the errors of each contract ascend by (name, signature).
C15_DeterministicOrdering ==
  op = "ResultWithVersion" =>
    /\ \A contracts \in Ranges(call.result) :
         ResultWithVersion(contracts).contracts = ret.contracts
    /\ \A c \in Returned :
         /\ Ascending([i \in DOMAIN c.Methods |->
                         <<c.Methods[i].Name, c.Methods[i].Signature>>])
         /\ Ascending([i \in DOMAIN c.Events |->
                         <<c.Events[i].Name, c.Events[i].Topic.keccak256>>])
         /\ Ascending([i \in DOMAIN c.Errors |->
                         <<c.Errors[i].Name, c.Errors[i].Signature>>])

\* the table of the contract has no digits for the signature
Unlisted(e, sig) ==
  sig \notin DOMAIN e.Result.EVM.MethodIdentifiers
    \/ e.Result.EVM.MethodIdentifiers[sig] = <<>>

\* C16: when a function of a contract of the input has a signature with no
\* entry, or an empty one, in the method-identifier table of its contract,
\* ResultWithVersion returns an error and no contracts.
C16_MissingSelectorIsError ==
  (/\ op = "ResultWithVersion"
   /\ \E e \in call.result : \E am \in e.Result.ABI.Methods : Unlisted(e, am.Sig))
    => (ret.err # "" /\ ret.contracts = <<>>)

\* ResultWithVersion has failed on a method that is not listed
C16_Witness ==
  /\ op = "ResultWithVersion"
  /\ \E e \in call.result : \E am \in e.Result.ABI.Methods : Unlisted(e, am.Sig)
  /\ ret.err = "parsing contract: parsing methods: missing method identifier"
  /\ ret.contracts = <<>>

\* C17: every custom error of a resolved contract has its signature in the
\* method-identifier table, and a contract with a custom error whose
\* signature the table lacks is not resolved.
C17_MissingErrorSelectorIsError ==
  op = "ResultWithVersion" =>
    /\ \A c \in Returned :
         \A i \in DOMAIN c.Errors : ~Unlisted(EntryOf(c), c.Errors[i].Signature)
    /\ (\E e \in call.result : \E x \in e.Result.ABI.Errors : Unlisted(e, x.Sig))
         => ret.err # ""

\* two contracts of the input have the same package name
Colliding(result) ==
  \E e1, e2 \in result :
    e1 # e2 /\ sanitizePackageName(e1.Name) = sanitizePackageName(e2.Name)

\* C18: when two contracts of the input, of one source file or of two, have
\* the same sanitized package name, ResultWithVersion returns an error and
\* no contract at all.
C18_PackageCollisionAborts ==
  (op = "ResultWithVersion" /\ Colliding(call.result))
    => (ret.err # "" /\ ret.contracts = <<>>)

\* ResultWithVersion has refused two contracts of two source files that have
\* one package name
C18_Witness ==
  /\ op = "ResultWithVersion"
  /\ ret.err = "package name collision"
  /\ ret.contracts = <<>>
  /\ \E e1, e2 \in call.result :
       /\ e1.SourceFile # e2.SourceFile
       /\ sanitizePackageName(e1.Name) = sanitizePackageName(e2.Name)

\* the names of the structs are pairwise different
DistinctNames(structs) ==
  \A i, j \in DOMAIN structs : i # j => structs[i].Name # structs[j].Name

\* C19: each record name occurs at most once in the registry; resolving a
\* tuple whose name is registered returns that name as the type name, adds
\* no entry and leaves the fields of the entry as they were; a struct of the
\* inputs and the outputs of a function yields one record.
C19_IdempotentRegistration ==
  /\ op = "mapSolidityToGoTypeWithRegistry" =>
       /\ DistinctNames(getAllStructs(reg))
       /\ Len(getAllStructs(reg)) = Cardinality(DOMAIN reg)
       /\ (call.abiType.T = "TupleTy" /\ tupleName(call.abiType) \in DOMAIN call.before) =>
            /\ ret.goType.TypeName = tupleName(call.abiType)
            /\ DOMAIN reg = DOMAIN call.before
            /\ reg[tupleName(call.abiType)] = call.before[tupleName(call.abiType)]
  /\ op = "ResultWithVersion" => \A c \in Returned : DistinctNames(c.Structs)

\* a tuple named User has been resolved against a registry that holds a
\* User of other fields
C19_Witness ==
  /\ op = "mapSolidityToGoTypeWithRegistry"
  /\ call.abiType = OtherUserTuple
  /\ <<"U", "s", "e", "r">> \in DOMAIN call.before
  /\ Len(call.before[<<"U", "s", "e", "r">>].Fields) = 3
  /\ reg = call.before
  /\ ret.goType.TypeName = <<"U", "s", "e", "r">>

\* name extraction finds no short name in the raw name
NoShortName(rawName) ==
  \/ rawName = <<>>
  \/ rawName = <<"s", "t", "r", "u", "c", "t", " ">>
  \/ rawName[Len(rawName)] = "."

\* C20: a tuple whose raw name yields no usable short name (an empty raw
\* name, "struct ", "struct A.") has the type name AnonymousTuple and
\* leaves the registry unchanged.
C20_AnonymousNeverRegistered ==
  (/\ op = "mapSolidityToGoTypeWithRegistry"
   /\ call.abiType.T = "TupleTy"
   /\ NoShortName(call.abiType.TupleRawName))
    => (ret.goType.TypeName = AnonymousTuple /\ reg = call.before)

RECURSIVE Descriptors(_)
\* the type, the elements of its arrays and the fields of its tuples, at
\* any depth
Descriptors(t) ==
  {t} \cup UNION {Descriptors(t.Elem[i]) : i \in DOMAIN t.Elem}
      \cup UNION {Descriptors(t.TupleElems[i]) : i \in DOMAIN t.TupleElems}

\* the types of the arguments
TypesOf(args) == {args[i].Type : i \in DOMAIN args}

\* the types of the parameters of the functions and the events of a contract
\* of the input
CallableTypes(e) ==
  UNION {TypesOf(am.Inputs) \cup TypesOf(am.Outputs) : am \in e.Result.ABI.Methods}
    \cup UNION {TypesOf(ev.Inputs) : ev \in e.Result.ABI.Events}

\* the fields a record of the tuple has
FieldList(t) == registerFields(newStructRegistry, t, 1, <<>>).fields

\* the records of the list under the name
Named(structs, name) == {structs[i] : i \in {k \in DOMAIN structs : structs[k].Name = name}}

\* C21: the fields stored under a record name are the fields of every tuple
\* resolved to that name: after a tuple is resolved against a registry the
\* entry of its name has the fields of the tuple, and every record of a
\* resolved contract has the fields of each tuple of the contract that
\* bears its name.
C21_NoRecordNameCollision ==
  /\ (/\ op = "mapSolidityToGoTypeWithRegistry"
      /\ call.abiType.T = "TupleTy"
      /\ ret.goType.TypeName \in DOMAIN reg)
       => reg[ret.goType.TypeName].Fields = FieldList(call.abiType)
  /\ (op = "ResultWithVersion" /\ ret.err = "") =>
       \A c \in Returned :
         \A t \in CallableTypes(EntryOf(c)) :
           \A d \in Descriptors(t) :
             d.T = "TupleTy" =>
               \A s \in Named(c.Structs, tupleName(d)) : s.Fields = FieldList(d)

\* the parser maps the descriptor to no type
Unsupported(d) ==
  d.T \notin {"TupleTy", "SliceTy", "ArrayTy"} /\ mapSolidityToGoType(d).err # ""

\* C22: when the type of a parameter of a function or of an event holds, at
\* top level, as the element of an array or as the field of a tuple, a
\* descriptor that maps to no supported type, the resolution returns an
\* error: the call that resolves the type, and ResultWithVersion for the
\* contract.
C22_UnsupportedTypeIsError ==
  /\ (/\ op = "mapSolidityToGoTypeWithRegistry"
      /\ \E d \in Descriptors(call.abiType) : Unsupported(d))
       => ret.err # ""
  /\ (/\ op = "ResultWithVersion"
      /\ \E e \in call.result : \E t \in CallableTypes(e) :
           \E d \in Descriptors(t) : Unsupported(d))
       => (ret.err # "" /\ ret.contracts = <<>>)

\* the types of the parameters of the functions, the events, the custom
\* errors and the constructor of a contract of the input
ParameterTypes(e) ==
  CallableTypes(e) \cup UNION {TypesOf(x.Inputs) : x \in e.Result.ABI.Errors}
    \cup TypesOf(e.Result.ABI.Constructor.Inputs)

\* C28: every named tuple in the type of a parameter of a function, an
\* event, a custom error or the constructor of a resolved contract, at any
\* depth, has a record of its name in the structs of the contract.
C28_RegistryComplete ==
  (op = "ResultWithVersion" /\ ret.err = "") =>
    \A c \in Returned :
      \A t \in ParameterTypes(EntryOf(c)) :
        \A d \in Descriptors(t) :
          (d.T = "TupleTy" /\ tupleName(d) # AnonymousTuple)
            => Named(c.Structs, tupleName(d)) # {}

\* the name with its first letter in upper case
Capitalized(name) == IF name = <<>> THEN name ELSE ToUpper(<<name[1]>>) \o Tail(name)

\* the raw name without a leading "struct "
Unprefixed(rawName) ==
  IF HasPrefix(rawName, <<"s", "t", "r", "u", "c", "t", " ">>) THEN Slice(rawName, Len(<<"s", "t", "r", "u", "c", "t", " ">>), Len(rawName))
  ELSE rawName

\* the places, not the first, of an upper-case letter that follows a
\* lower-case one
Transitions(name) == {i \in 2..Len(name) : IsUpper(name[i]) /\ IsLower(name[i - 1])}

\* the segment after the last dot
LastSegment(name) ==
  Slice(name, CHOOSE k \in DOMAIN name : name[k] = "." /\ \A j \in (k + 1)..Len(name) : name[j] # ".",
        Len(name))

\* the rules of the name extraction, in their order
ShortName(rawName) ==
  IF rawName = <<>> THEN <<>>
  ELSE IF Contains(Unprefixed(rawName), ".") THEN Capitalized(LastSegment(Unprefixed(rawName)))
  ELSE IF Transitions(Unprefixed(rawName)) # {}
  THEN Capitalized(Slice(Unprefixed(rawName),
                         (CHOOSE i \in Transitions(Unprefixed(rawName)) :
                            \A j \in Transitions(Unprefixed(rawName)) : j <= i) - 1,
                         Len(Unprefixed(rawName))))
  ELSE Capitalized(Unprefixed(rawName))

\* C26: extractStructName("") is ""; otherwise a leading "struct " is
\* stripped, and the result is the last segment after a dot, else the part
\* from the rightmost upper-case letter that follows a lower-case letter,
\* else the whole rest, with the first letter in upper case.
C26_StructNameRules ==
  op = "extractStructName" => ret.name = ShortName(call.rawName)

(***************************************************************************)
(* Properties of the generated decoders                                    *)
(***************************************************************************)
\* what Decode returns for the decoder and the data of the call
Fallible ==
  CASE op \in {"Method.Decode", "Method.MustDecode"} ->
         methodDecodeImpl(Structs, arg.params, wire, arg.mem)
    [] op \in {"Event.Decode", "Event.MustDecode"} ->
         eventDecodeImpl(arg.params, wire, arg.mem)
    [] op \in {"Error.Decode", "Error.MustDecode"} ->
         errorDecodeImpl(arg.params, wire, arg.mem)

\* C23: for every method, event and error decoder and every buffer,
\* MustDecode returns v exactly when Decode returns (v, nil), and panics
\* with e exactly when Decode returns the error e.
C23_MustAndFallibleAgree ==
  op \in {"Method.MustDecode", "Event.MustDecode", "Error.MustDecode"} =>
    /\ (Fallible.err = "" /\ ~Fallible.panic) <=> ~out.panic
    /\ ~out.panic => (out.err = "" /\ out.val = Fallible.val)
    /\ (Fallible.err # "" /\ ~Fallible.panic) <=> (out.panic /\ out.err # "")
    /\ (out.panic /\ out.err # "") => out.err = Fallible.err

\* a MustDecode has panicked with the error of its decodeImpl, on data that
\* is too short
C23_Witness ==
  /\ op = "Method.MustDecode"
  /\ out.panic
  /\ out.err = "insufficient data"
  /\ Fallible.err = "insufficient data"
  /\ ~Fallible.panic

\* the fields of the struct User
UserFields == UserStruct.Fields

\* the data holds, behind the pointer p of its first word, the length n and
\* n structs of static fields that decode
HoldsUsers(data, p, n) ==
  /\ Len(data) >= p + WordSize * (1 + n * Len(UserFields))
  /\ Slice(data, 0, WordSize) = U256(p)
  /\ Slice(data, p, p + WordSize) = U256(n)
  /\ \A i \in 0..(n - 1) : \A j \in 0..(Len(UserFields) - 1) :
       staticDecode(UserFields[j + 1].Type,
                    Slice(data, p + 32 + 32 * (i * Len(UserFields) + j),
                          p + 64 + 32 * (i * Len(UserFields) + j))).err = ""

EventFrame ==
  op = "Event.Decode" =>
    /\ Len(out.reads) <= Len(InData(arg.params))
    /\ \A i \in 1..Len(out.val) : arg.params[i].Indexed => out.val[i] = Nil

\* C27: an event decoder reads data only for the parameters that are not
\* indexed, the m-th of them, when static, from the bytes
\* [32 * (m - 1), 32 * m); an indexed parameter keeps the zero value.
C27_EventReadsNonIndexed ==
  /\ EventFrame
  /\ op = "Event.Decode" =>
       \A k \in 1..Len(out.reads) :
         ~IsDynamic(InData(arg.params)[k].Type) => out.reads[k] = 32 * (k - 1)

\* C29: the decoder of a custom error returns an error for revert data
\* shorter than 4 bytes and for revert data whose first 4 bytes are not
\* the selector of its error; it returns parameters only for data that
\* starts with that selector.
C29_ErrorSelectorChecked ==
  op = "Error.Decode" =>
    /\ (Len(wire) < SelectorSize \/ Slice(wire, 0, SelectorSize) # arg.selector)
         => (out.err # "" /\ ~out.panic)
    /\ (out.err = "" /\ ~out.panic)
         => (Len(wire) >= SelectorSize /\ Slice(wire, 0, SelectorSize) = arg.selector)

(***************************************************************************)
(* Properties of the process-json command                                  *)
(***************************************************************************)
\* the contracts of the input by source file and name, when every key
\* splits
InputContracts == convertCombinedToStandard(run.stdin.contracts).result

\* parseContract rejects the contract
FailsResolution(e) ==
  \E c \in Ranged(e) : parseContract(c.SourceFile, c.Name, c.Result).err # ""

\* stdin is empty, is no JSON, has no contracts, has a key that does not
\* split, or has a contract that fails resolution
BadInput ==
  \/ run.stdin.data # "json"
  \/ run.stdin.contracts = {}
  \/ convertCombinedToStandard(run.stdin.contracts).err # ""
  \/ \E e \in InputContracts : FailsResolution(e)

\* a package directory or a package file has been written
PackageWritten == run.files # {} \/ run.dirs \ {run.output} # {}

\* C30: in runProcessJSON a package directory or file is written only once
\* every contract of the input has been parsed and resolved, and a call on
\* an input that is empty, is no JSON, has no contracts, has a malformed
\* key or a contract that fails resolution returns an error with nothing
\* written but, at most, the output directory
C30_ParseBeforeWrite ==
  pc \in {"processing", "returned"} =>
    /\ PackageWritten =>
         /\ ~BadInput
         /\ Len(run.contracts) = Cardinality(run.stdin.contracts)
         /\ \A e \in InputContracts :
              \E k \in DOMAIN run.contracts :
                /\ run.contracts[k].SourceFile = e.SourceFile
                /\ run.contracts[k].Name = e.Name
    /\ (pc = "returned" /\ BadInput) =>
         /\ run.err # ""
         /\ run.files = {}
         /\ run.dirs \subseteq {run.output}

\* a call returned on a batch of which one contract resolves and another
\* does not
C30_Witness ==
  /\ pc = "returned"
  /\ run.err = "parsing failed: parsing contract: parsing ABI"
  /\ \E e \in InputContracts : FailsResolution(e)
  /\ \E e \in InputContracts : ~FailsResolution(e)
  /\ run.dirs = {run.output}
  /\ run.files = {}

(***************************************************************************)
(* Properties of contracts parsed side by side                             *)
(***************************************************************************)
\* the struct of that name in what task k returned
StructOf(k, name) ==
  {s \in {tasks.workers[k].parsed.contract[1].Structs[i] :
            i \in DOMAIN tasks.workers[k].parsed.contract[1].Structs} : s.Name = name}

\* C24: whatever the order in which the tasks take their steps, a task
\* that has returned holds what parseContract returns for its contract
\* alone, the structs of the contract among it
C24_RegistryIsolation ==
  pc \in {"resolving", "joined"} =>
    \A k \in DOMAIN tasks.workers :
      tasks.workers[k].step = "done" =>
        tasks.workers[k].parsed =
          parseContract(tasks.workers[k].entry.SourceFile, tasks.workers[k].entry.Name,
                        tasks.workers[k].entry.Result)

\* the second task has returned a contract with a struct User while the
\* first, with its methods and events parsed and another struct User in its
\* registry, has yet to return
C24_Witness ==
  /\ pc = "resolving"
  /\ Len(tasks.workers) = 2
  /\ tasks.workers[1].step = "finish"
  /\ <<"U", "s", "e", "r">> \in DOMAIN tasks.heap[1]
  /\ tasks.workers[2].step = "done"
  /\ tasks.workers[2].parsed.err = ""
  /\ \E t \in StructOf(2, <<"U", "s", "e", "r">>) : t # tasks.heap[1][<<"U", "s", "e", "r">>]

====
